---- MODULE Spec2Model ----
(***************************************************************************)
(* The workflow engine's state machine (workflows/base): State, Transition *)
(* and AbstractStateMachine, with Python's object semantics kept: a State  *)
(* is an object whose data field refers to a dict object (or is None), and *)
(* set_state_data writes through that reference.                           *)
(***************************************************************************)
EXTENDS Integers, Sequences, FiniteSets, TLC

VARIABLES
    workflow,   \* which AbstractStateMachine subclass the machine is an instance of
    objs,       \* every State object created for the machine, in creation order
    dicts,      \* every dict object referred to by a State's data field
    cur,        \* the machine's _state: an index into objs
    orig,       \* for each State object that has been replaced: its value when the replacing advance was called
    last,       \* the last call made on the machine and what it did
    probe,      \* the last call of a classifier or of the email sender, with its result
    reg,        \* WorkflowRegistry._workflows, the WorkflowDefinition objects, and the callers
    run         \* one run of a periodic driver: what it was given, the database, its counters

machine_vars == <<workflow, objs, dicts, cur, orig, last>>

vars == <<workflow, objs, dicts, cur, orig, last, probe, reg, run>>

----------------------------------------------------------------------------
\* Bounds of the model.

\* The machine is followed until it has created this many State objects.
MaxObjs == 3

----------------------------------------------------------------------------
\* Values.

\* TestEventType
Events == {"START", "APPROVE", "REJECT", "DEADLINE", "CANCEL"}

\* The keys of the data bag the model draws from, and the values written to
\* each: JSON true and false and a string for deadline_passed, a string for k.
Keys == {"deadline_passed", "k"}
Values == {"True", "False", "yes", "v"}
Items == {<<"deadline_passed", "True">>, <<"deadline_passed", "False">>,
          <<"deadline_passed", "yes">>, <<"k", "v">>}

\* Python truthiness of a value of the data bag.
Truthy(v) == v \notin {"False", "None", ""}

\* A State's data field that is None instead of a dict.
NoneRef == 0

EmptyDict == [x \in {} |-> "v"]

\* d[key] = value on a dict
Put(d, key, value) == [x \in (DOMAIN d) \cup {key} |-> IF x = key THEN value ELSE d[x]]

\* d.get(key, default)
Get(d, key, default) == IF key \in DOMAIN d THEN d[key] ELSE default

\* Transition(from_state, event, to_state, is_valid, action)
Transition(f, e, t, g, a) ==
    [from_state |-> f, event |-> e, to_state |-> t, is_valid |-> g, action |-> a]

\* TestStateMachine.get_transitions
TestTransitions == <<
    Transition("pending", "START", "in_progress", "default", "none"),
    Transition("in_progress", "APPROVE", "approved", "default", "none"),
    Transition("in_progress", "REJECT", "rejected", "default", "none"),
    Transition("in_progress", "DEADLINE", "expired", "deadline_passed", "none"),
    Transition("pending", "CANCEL", "cancelled", "default", "none"),
    Transition("in_progress", "CANCEL", "cancelled", "default", "none") >>

\* A workflow whose transitions share (from_state, event) pairs and carry
\* arbitrary conditions and action callbacks.
ReviewTransitions == <<
    Transition("pending", "START", "in_progress", "condition", "callback"),
    Transition("pending", "START", "approved", "deadline_passed", "callback"),
    Transition("pending", "START", "rejected", "condition", "none"),
    Transition("in_progress", "APPROVE", "approved", "condition", "callback"),
    Transition("in_progress", "APPROVE", "rejected", "condition", "callback"),
    Transition("in_progress", "REJECT", "pending", "default", "none"),
    Transition("pending", "CANCEL", "cancelled", "default", "none") >>

Workflows == {"test", "review"}

get_transitions(w) == IF w = "test" THEN TestTransitions ELSE ReviewTransitions

initial_state(w) == "pending"

\* State names of the two workflows, and one that no workflow declares.
StateNames == {"pending", "in_progress", "approved", "rejected", "expired", "cancelled"}
UndeclaredName == "archived"

----------------------------------------------------------------------------
\* The machine as a value: its State objects, their dicts, which State is
\* current, and the callbacks called so far by the running advance.

Machine(o, d, c) == [objs |-> o, dicts |-> d, cur |-> c, calls |-> <<>>]

\* self._state.name
state_name(m) == m.objs[m.cur].name

\* self._state.data: a reference to a dict, or NoneRef
state_data(m) == m.objs[m.cur].data

\* The value of State object i: its name and the contents of its data.
StateValue(o, d, i) ==
    [name |-> o[i].name,
     is_none |-> o[i].data = NoneRef,
     data |-> IF o[i].data = NoneRef THEN EmptyDict ELSE d[o[i].data]]

\* A callback (or the State constructor) called by advance, in call order,
\* with the items it wrote to the state data.
Called(m, call, t, out, wrote) ==
    [m EXCEPT !.calls = Append(@, [call |-> call, t |-> t, out |-> out, wrote |-> wrote])]

\* get_state_data(key, default): None has no get, so it raises on a None data
get_state_data(m, key, default) ==
    IF state_data(m) = NoneRef
    THEN [raised |-> TRUE, value |-> default]
    ELSE [raised |-> FALSE, value |-> Get(m.dicts[state_data(m)], key, default)]

\* A set_state_data that replaces the current State by a new one holding the
\* written item, instead of writing to the current State's dict.
set_state_data_new_state(m, key, value) ==
    IF state_data(m) = NoneRef
    THEN [raised |-> TRUE, m |-> m]
    ELSE LET d == Append(m.dicts, Put(m.dicts[state_data(m)], key, value))
             o == Append(m.objs, [name |-> state_name(m), data |-> Len(d)])
         IN  [raised |-> FALSE, m |-> [m EXCEPT !.dicts = d, !.objs = o, !.cur = Len(o)]]

\* set_state_data(key, value): item assignment on the current State's dict
\* (it raises on a None data)
set_state_data(m, key, value) ==
    IF state_data(m) = NoneRef
    THEN [raised |-> TRUE, m |-> m]
    ELSE [raised |-> FALSE, m |-> [m EXCEPT !.dicts[state_data(m)] = Put(@, key, value)]]

\* The candidates of (state, event) taken in reverse declaration order.
get_valid_transitions_reversed(ts, m, event) ==
    LET n == Len(ts) IN
    SelectSeq([i \in 1..n |-> n + 1 - i],
              LAMBDA i : ts[i].from_state = state_name(m) /\ ts[i].event = event)

\* get_valid_transitions(event): the indices of the transitions declared for
\* the current state and the event, in declaration order
get_valid_transitions(ts, m, event) ==
    SelectSeq([i \in 1..Len(ts) |-> i],
              LAMBDA i : ts[i].from_state = state_name(m) /\ ts[i].event = event)

\* The events of every transition, whatever its from_state.
available_event_set_any_state(ts, m) == {ts[i].event : i \in 1..Len(ts)}

\* {t.event for t in self._transitions if t.from_state == self._state.name}
available_event_set(ts, m) ==
    {ts[i].event : i \in {j \in 1..Len(ts) : ts[j].from_state = state_name(m)}}

\* The lists list(a_set) can return: the set's elements once each, in the
\* set's iteration order, which the hash seed of the process decides.
ListsOf(S) ==
    {s \in [1..Cardinality(S) -> S] : \A i, j \in 1..Cardinality(S) : s[i] = s[j] => i = j}

\* get_available_events()
get_available_events(ts, m) == ListsOf(available_event_set(ts, m))

----------------------------------------------------------------------------
\* State.to_dict / from_dict / serialize / deserialize. A State value is
\* [name, is_none, data] as StateValue gives it; a mapping (a payload) is
\* [has_name, name, kind, data], kind saying whether its "data" entry is
\* missing, null or a dict. JSON text is a sequence of tokens.

Payload(has_name, name, kind, data) ==
    [has_name |-> has_name, name |-> name, kind |-> kind, data |-> data]

\* {"name": self.name, "data": self.data}
State_to_dict(sv) ==
    Payload(TRUE, sv.name, IF sv.is_none THEN "null" ELSE "dict", sv.data)

\* cls(name=data["name"], data=data.get("data", {})): KeyError without a
\* name; the default {} is used only when the key is missing, so a null data
\* stays None
State_from_dict(p) ==
    IF ~p.has_name
    THEN [raised |-> TRUE, state |-> [name |-> "", is_none |-> FALSE, data |-> EmptyDict]]
    ELSE [raised |-> FALSE,
          state |-> [name |-> p.name,
                     is_none |-> p.kind = "null",
                     data |-> IF p.kind = "dict" THEN p.data ELSE EmptyDict]]

Punct(c) == <<"punct", c>>
Lit(w) == <<"lit", w>>
Str(text) == <<"str", text>>

\* json.dumps of a value of the data bag: True and False are the JSON
\* literals, every other value is a string
DumpsScalar(v) ==
    IF v = "True" THEN Lit("true") ELSE IF v = "False" THEN Lit("false") ELSE Str(v)

\* json.dumps of a dict whose keys are taken in the order ks
RECURSIVE DumpsMembers(_, _)
DumpsMembers(d, ks) ==
    IF ks = <<>> THEN <<>>
    ELSE <<Str(ks[1]), Punct(":"), DumpsScalar(d[ks[1]])>>
             \o (IF Len(ks) > 1 THEN <<Punct(",")>> ELSE <<>>)
             \o DumpsMembers(d, Tail(ks))

\* json.dumps(d) for a dict d: its items in the dict's own order, which the
\* order of insertion decides (every order is taken)
DumpsDict(d) ==
    {<<Punct("{")>> \o DumpsMembers(d, ks) \o <<Punct("}")>> : ks \in ListsOf(DOMAIN d)}

\* A serialize that writes the name alone: json.dumps({"name": self.name}).
State_serialize_name_only(sv) ==
    {<<Punct("{"), Str("name"), Punct(":"), Str(sv.name), Punct("}")>>}

\* json.dumps({"name": self.name, "data": self.data})
State_serialize(sv) ==
    {<<Punct("{"), Str("name"), Punct(":"), Str(sv.name), Punct(","),
       Str("data"), Punct(":")>> \o body \o <<Punct("}")>>
        : body \in IF sv.is_none THEN {<<Lit("null")>>} ELSE DumpsDict(sv.data)}

\* json.loads of a scalar token
LoadsScalar(tok) ==
    IF tok = Lit("true") THEN "True" ELSE IF tok = Lit("false") THEN "False" ELSE tok[2]

IsScalar(tok) == tok[1] = "str" \/ tok \in {Lit("true"), Lit("false")}

ParseFail == [ok |-> FALSE, dict |-> EmptyDict, next |-> 0]

\* json.loads of the members of an object of scalars, from token i on (the
\* opening brace is read); a later duplicate of a key wins
RECURSIVE ParseMembers(_, _, _)
ParseMembers(toks, i, acc) ==
    IF i + 2 > Len(toks) \/ toks[i][1] # "str" \/ toks[i + 1] # Punct(":")
           \/ ~IsScalar(toks[i + 2]) \/ i + 3 > Len(toks)
    THEN ParseFail
    ELSE LET acc1 == Put(acc, toks[i][2], LoadsScalar(toks[i + 2])) IN
         IF toks[i + 3] = Punct("}") THEN [ok |-> TRUE, dict |-> acc1, next |-> i + 4]
         ELSE IF toks[i + 3] = Punct(",") THEN ParseMembers(toks, i + 4, acc1)
         ELSE ParseFail

\* json.loads of an object of scalars starting at token i
ParseDict(toks, i) ==
    IF i + 1 > Len(toks) \/ toks[i] # Punct("{") THEN ParseFail
    ELSE IF toks[i + 1] = Punct("}") THEN [ok |-> TRUE, dict |-> EmptyDict, next |-> i + 2]
    ELSE ParseMembers(toks, i + 1, EmptyDict)

LoadsFail == [ok |-> FALSE, payload |-> Payload(FALSE, "", "missing", EmptyDict)]

\* json.loads of the members of the outer object from token i on: "name" with
\* a string, "data" with null or an object
RECURSIVE ParseOuter(_, _, _)
ParseOuter(toks, i, acc) ==
    IF i + 2 > Len(toks) \/ toks[i][1] # "str" \/ toks[i + 1] # Punct(":")
    THEN LoadsFail
    ELSE LET key == toks[i][2]
             v == toks[i + 2]
             d == ParseDict(toks, i + 2)
             after == IF v = Punct("{") THEN d.next ELSE i + 3
             acc1 == IF key = "name" /\ v[1] = "str"
                         THEN [acc EXCEPT !.has_name = TRUE, !.name = v[2]]
                     ELSE IF key = "data" /\ v = Lit("null")
                         THEN [acc EXCEPT !.kind = "null", !.data = EmptyDict]
                     ELSE IF key = "data" /\ v = Punct("{") /\ d.ok
                         THEN [acc EXCEPT !.kind = "dict", !.data = d.dict]
                     ELSE acc
             known == \/ key = "name" /\ v[1] = "str"
                      \/ key = "data" /\ v = Lit("null")
                      \/ key = "data" /\ v = Punct("{") /\ d.ok
         IN  IF ~known \/ after > Len(toks) THEN LoadsFail
             ELSE IF toks[after] = Punct("}")
                  THEN IF after = Len(toks) THEN [ok |-> TRUE, payload |-> acc1]
                       ELSE LoadsFail
             ELSE IF toks[after] = Punct(",") THEN ParseOuter(toks, after + 1, acc1)
             ELSE LoadsFail

\* json.loads(json_str): the mapping a text of the persisted shape decodes
\* to, or a decode error
json_loads(toks) ==
    IF Len(toks) < 2 \/ toks[1] # Punct("{") THEN LoadsFail
    ELSE IF toks[2] = Punct("}")
         THEN IF Len(toks) = 2 THEN [ok |-> TRUE, payload |-> Payload(FALSE, "", "missing", EmptyDict)]
              ELSE LoadsFail
    ELSE ParseOuter(toks, 2, Payload(FALSE, "", "missing", EmptyDict))

\* State.deserialize(json_str): from_dict's construction on json.loads(json_str)
State_deserialize(toks) ==
    IF ~json_loads(toks).ok
    THEN [raised |-> TRUE, state |-> [name |-> "", is_none |-> FALSE, data |-> EmptyDict]]
    ELSE State_from_dict(json_loads(toks).payload)

\* cls.from_dict(m.to_dict()) and cls.deserialize(m.serialize()): the State
\* of the machine they build, and its transitions, which cls(state=state)
\* takes from get_transitions()
rebuild(via, w, sv) ==
    {[raised |-> r.raised, state |-> r.state, transitions |-> get_transitions(w)] :
        r \in IF via = "from_dict(to_dict)"
              THEN {State_from_dict(State_to_dict(sv))}
              ELSE {State_deserialize(text) : text \in State_serialize(sv)}}

----------------------------------------------------------------------------
\* Guards and actions. A guard is a condition function: "default" is
\* Transition's lambda: True; "deadline_passed" is conftest's
\* lambda: self.get_state_data("deadline_passed", False); a "condition" is any
\* other one: it returns true or false, or raises. An action "callback" is a
\* function closed over the machine: it may call set_state_data, and returns
\* or raises.

CallbackWrites == {<<>>, << <<"k", "v">> >>, << <<"deadline_passed", "True">> >>}

\* transition.is_valid()
is_valid(kind, m) ==
    CASE kind = "default" -> {"true"}
      [] kind = "deadline_passed" ->
            LET r == get_state_data(m, "deadline_passed", "False") IN
            {IF r.raised THEN "raise" ELSE IF Truthy(r.value) THEN "true" ELSE "false"}
      [] OTHER -> {"true", "false", "raise"}

\* The machine after a callback's writes, in order; the first write raises on
\* a None data.
RECURSIVE do_writes(_, _)
do_writes(m, ws) ==
    IF ws = <<>> THEN [raised |-> FALSE, m |-> m]
    ELSE LET r == set_state_data(m, ws[1][1], ws[1][2]) IN
         IF r.raised THEN r ELSE do_writes(r.m, Tail(ws))

\* transition.action()
action(kind, m) ==
    {[out |-> IF do_writes(m, ws).raised THEN "raise" ELSE o,
      wrote |-> IF do_writes(m, ws).raised THEN <<>> ELSE ws,
      m |-> do_writes(m, ws).m] :
        ws \in CallbackWrites, o \in {"return", "raise"}}

----------------------------------------------------------------------------
\* advance(event)

Outcome(result, msg, m) == [result |-> result, msg |-> msg, m |-> m]

\* A machine that reports an undeclared (state, event) pair as "no transition
\* occurred" instead of raising.
no_transition_returns_false(m) == {Outcome("False", "", m)}

\* raise InvalidTransitionError("No transition defined for event ...")
no_transition(m) == {Outcome("InvalidTransitionError", "No transition defined", m)}

\* A machine that treats "every guard false" as a silent no-op.
conditions_not_met_returns_false(m) == {Outcome("False", "", m)}

\* raise InvalidTransitionError("Transition conditions not met for event ...")
conditions_not_met(m) ==
    {Outcome("InvalidTransitionError", "Transition conditions not met", m)}

\* A new State built without the data argument: State(name=transition.to_state).
replace_state_default_data(ts, t, m) ==
    LET d == Append(m.dicts, EmptyDict)
        o == Append(m.objs, [name |-> ts[t].to_state, data |-> Len(d)])
    IN  {Outcome("True", "",
           Called([m EXCEPT !.dicts = d, !.objs = o, !.cur = Len(o)], "State", t, "new", <<>>))}

\* self._state = State(name=transition.to_state, data=self._state.data.copy()); return True
\* (None has no copy: the call raises and _state is not assigned)
replace_state(ts, t, m) ==
    IF state_data(m) = NoneRef
    THEN {Outcome("Error", "AttributeError", m)}
    ELSE LET d == Append(m.dicts, m.dicts[state_data(m)])
             o == Append(m.objs, [name |-> ts[t].to_state, data |-> Len(d)])
         IN  {Outcome("True", "",
                Called([m EXCEPT !.dicts = d, !.objs = o, !.cur = Len(o)],
                       "State", t, "new", <<>>))}

\* An advance that assigns the new State first and runs the action after it.
apply_transition_state_first(ts, t, m) ==
    IF ts[t].action = "none"
    THEN replace_state(ts, t, m)
    ELSE UNION { IF r.result # "True" THEN {r}
                 ELSE { Outcome(IF a.out = "raise" THEN "Error" ELSE "True", "",
                                Called(a.m, "action", t, a.out, a.wrote))
                        : a \in action(ts[t].action, r.m) }
               : r \in replace_state(ts, t, m) }

\* if transition.action: transition.action(); then the new State
apply_transition(ts, t, m) ==
    IF ts[t].action = "none"
    THEN replace_state(ts, t, m)
    ELSE UNION { LET m1 == Called(a.m, "action", t, a.out, a.wrote) IN
                 IF a.out = "raise"
                 THEN {Outcome("Error", "raised by action", m1)}
                 ELSE replace_state(ts, t, m1)
               : a \in action(ts[t].action, m) }

\* for transition in valid_transitions: ...
RECURSIVE try_transitions(_, _, _, _)
try_transitions(ts, valid, i, m) ==
    IF i > Len(valid)
    THEN conditions_not_met(m)
    ELSE UNION { LET m1 == Called(m, "is_valid", valid[i], g, <<>>) IN
                 CASE g = "raise" -> {Outcome("Error", "raised by guard", m1)}
                   [] g = "false" -> try_transitions(ts, valid, i + 1, m1)
                   [] OTHER -> apply_transition(ts, valid[i], m1)
               : g \in is_valid(ts[valid[i]].is_valid, m) }

\* advance(event): every way the call can end
advance(ts, m, event) ==
    LET valid == get_valid_transitions(ts, m, event) IN
    IF valid = <<>> THEN no_transition(m) ELSE try_transitions(ts, valid, 1, m)

----------------------------------------------------------------------------
\* The machine's life.

NoCall ==
    [op |-> "none", event |-> "", key |-> "", value |-> "", result |-> "", msg |-> "",
     calls |-> <<>>, events |-> <<>>,
     rebuilt |-> [name |-> "", is_none |-> FALSE, data |-> EmptyDict], rebuilt_ts |-> <<>>,
     pre |-> [cur |-> 0, nobjs |-> 0, value |-> [name |-> "", is_none |-> FALSE, data |-> EmptyDict]]]

\* What a call finds: which State object is current, how many exist, its value.
Pre == [cur |-> cur, nobjs |-> Len(objs), value |-> StateValue(objs, dicts, cur)]

InitData == {EmptyDict, [x \in {"k"} |-> "v"], [x \in {"deadline_passed"} |-> "False"]}

\* cls(): State(name=self.initial_state, data={})
InitDefault ==
    /\ objs = <<[name |-> initial_state(workflow), data |-> 1]>>
    /\ dicts = <<EmptyDict>>

\* cls(state=State(name, data))
InitWithState ==
    \E n \in StateNames \cup {UndeclaredName}, d \in InitData :
        /\ objs = <<[name |-> n, data |-> 1]>>
        /\ dicts = <<d>>

\* The mappings a machine is built from: a name, and a data entry that is
\* missing, null or a dict.
InitPayloads ==
    {Payload(TRUE, n, "dict", d) : n \in StateNames \cup {UndeclaredName}, d \in InitData}
        \cup {Payload(TRUE, n, k, EmptyDict) :
                 n \in StateNames \cup {UndeclaredName}, k \in {"missing", "null"}}

\* The JSON texts of a mapping.
TextsOf(p) ==
    IF p.kind = "missing" THEN State_serialize_name_only(p)
    ELSE State_serialize([name |-> p.name, is_none |-> p.kind = "null", data |-> p.data])

\* The machine holds the State r.state as its one State object.
BuiltFrom(r) ==
    /\ ~r.raised
    /\ objs = <<[name |-> r.state.name, data |-> IF r.state.is_none THEN NoneRef ELSE 1]>>
    /\ dicts = IF r.state.is_none THEN <<>> ELSE <<r.state.data>>

\* cls.from_dict(payload), cls.deserialize(text): State(name=data["name"],
\* data=data.get("data", {})), so a payload whose data is null gives None
InitFromDict ==
    \E p \in InitPayloads :
        \/ BuiltFrom(State_from_dict(p))
        \/ \E text \in TextsOf(p) : BuiltFrom(State_deserialize(text))

\* Nothing has been called yet on the part of the program held by a variable.
Idle == [op |-> "none"]

Init ==
    /\ workflow \in Workflows
    /\ InitDefault \/ InitWithState \/ InitFromDict
    /\ cur = 1
    /\ orig = <<>>
    /\ last = NoCall
    /\ probe = Idle
    /\ reg = Idle
    /\ run = Idle

\* await machine.advance(event)
Advance(event) ==
    /\ Len(objs) < MaxObjs
    /\ \E o \in advance(get_transitions(workflow), Machine(objs, dicts, cur), event) :
        /\ objs' = o.m.objs
        /\ dicts' = o.m.dicts
        /\ cur' = o.m.cur
        /\ orig' = IF o.m.cur # cur THEN Append(orig, StateValue(objs, dicts, cur)) ELSE orig
        /\ last' = [NoCall EXCEPT !.op = "advance", !.event = event, !.result = o.result,
                                  !.msg = o.msg, !.calls = o.m.calls, !.pre = Pre]
    /\ UNCHANGED <<workflow, probe, reg, run>>

\* machine.set_state_data(key, value)
SetStateData(key, value) ==
    /\ LET r == set_state_data(Machine(objs, dicts, cur), key, value) IN
        /\ objs' = r.m.objs
        /\ dicts' = r.m.dicts
        /\ cur' = r.m.cur
        /\ last' = [NoCall EXCEPT !.op = "set_state_data", !.key = key, !.value = value,
                                  !.result = IF r.raised THEN "Error" ELSE "None",
                                  !.pre = Pre]
    /\ UNCHANGED <<workflow, orig, probe, reg, run>>

\* machine.get_available_events()
GetAvailableEvents ==
    /\ \E l \in get_available_events(get_transitions(workflow), Machine(objs, dicts, cur)) :
        last' = [NoCall EXCEPT !.op = "get_available_events", !.result = "list",
                               !.events = l, !.pre = Pre]
    /\ UNCHANGED <<workflow, objs, dicts, cur, orig, probe, reg, run>>

\* sm2 = cls.from_dict(machine.to_dict()), sm2 = cls.deserialize(machine.serialize())
RoundTrip(via) ==
    /\ \E r \in rebuild(via, workflow, StateValue(objs, dicts, cur)) :
        last' = [NoCall EXCEPT !.op = via, !.result = IF r.raised THEN "Error" ELSE "machine",
                               !.rebuilt = r.state, !.rebuilt_ts = r.transitions,
                               !.pre = Pre]
    /\ UNCHANGED <<workflow, objs, dicts, cur, orig, probe, reg, run>>

Next ==
    \/ \E e \in Events : Advance(e)
    \/ \E kv \in Items : SetStateData(kv[1], kv[2])
    \/ GetAvailableEvents
    \/ \E via \in {"from_dict(to_dict)", "deserialize(serialize)"} : RoundTrip(via)

Spec == Init /\ [][Next]_vars

\* No machine has been built: the state of the specifications of the other
\* parts of the program.
NoMachine ==
    /\ workflow = "test"
    /\ objs = <<>>
    /\ dicts = <<>>
    /\ cur = 0
    /\ orig = <<>>
    /\ last = NoCall

----------------------------------------------------------------------------
\* What the claims speak about.

Ts == get_transitions(workflow)

CurValue == StateValue(objs, dicts, cur)

\* The transitions declared for the state the last call found and its event.
Declared == {i \in 1..Len(Ts) : Ts[i].from_state = last.pre.value.name /\ Ts[i].event = last.event}

CallsOf(kind) == SelectSeq(last.calls, LAMBDA c : c.call = kind)

\* The last call left the machine on the same State object, with the value it had.
StateUntouched ==
    /\ cur = last.pre.cur
    /\ Len(objs) = last.pre.nobjs
    /\ CurValue = last.pre.value

C2_FirstPassingGuardWins ==
    (last.op = "advance" /\ last.result = "True") =>
        LET g == CallsOf("is_valid")
            n == Len(g)
        IN  /\ n >= 1
            /\ g[n].t \in Declared /\ g[n].out = "true"
            /\ \A i \in 1..(n - 1) : g[i].out = "false" /\ g[i].t < g[i + 1].t
            /\ {g[i].t : i \in 1..n} = {j \in Declared : j <= g[n].t}
            /\ CurValue.name = Ts[g[n].t].to_state
            /\ \A j \in 1..Len(last.calls) : last.calls[j].t <= g[n].t
            /\ \A j \in 1..Len(last.calls) :
                   last.calls[j].call # "is_valid" => last.calls[j].t = g[n].t

\* C2's case: the second of three transitions declared for (pending, START)
\* was applied.
C2_Witness ==
    /\ last.op = "advance" /\ last.result = "True"
    /\ Cardinality(Declared) = 3
    /\ Len(CallsOf("is_valid")) = 2
    /\ CurValue.name = "approved"

C4_ActionOnceAfterGuardBeforeReplace ==
    last.op = "advance" =>
        LET c == last.calls
            n == Len(c)
        IN  /\ Len(CallsOf("action")) <= 1
            /\ \A j \in 1..n : c[j].call = "action" =>
                   /\ j > 1
                   /\ c[j - 1].call = "is_valid" /\ c[j - 1].t = c[j].t /\ c[j - 1].out = "true"
                   /\ Ts[c[j].t].action # "none"
                   /\ \A i \in 1..j : c[i].call # "State"
            /\ (cur # last.pre.cur) <=> (last.result = "True")
            /\ last.result = "True" =>
                   /\ c[n].call = "State" /\ Len(CallsOf("State")) = 1
                   /\ Len(CallsOf("action")) = IF Ts[c[n].t].action = "none" THEN 0 ELSE 1
                   /\ Ts[c[n].t].action # "none" =>
                          c[n - 1].call = "action" /\ c[n - 1].t = c[n].t /\ c[n - 1].out = "return"

\* C4's case: a successful advance whose action wrote to the state data,
\* after a first guard that returned false.
C4_Witness ==
    /\ last.op = "advance" /\ last.result = "True"
    /\ Len(last.calls) = 4
    /\ last.calls[1].out = "false"
    /\ last.calls[3].call = "action" /\ last.calls[3].wrote # <<>>

\* C5 (as claimed): an advance that ends with an error other than
\* InvalidTransitionError leaves the current State's name and data exactly as
\* they were before the call.
C5_FailedAdvanceLeavesStateUnmutated ==
    (last.op = "advance" /\ last.result = "Error") => StateUntouched

\* Every item written by the callbacks of the last advance, in call order.
RECURSIVE WritesOf(_)
WritesOf(calls) == IF calls = <<>> THEN <<>> ELSE calls[1].wrote \o WritesOf(Tail(calls))

\* A mapping after the items ws are put into it in order.
RECURSIVE PutAll(_, _)
PutAll(d, ws) == IF ws = <<>> THEN d ELSE PutAll(Put(d, ws[1][1], ws[1][2]), Tail(ws))

\* C6: after a successful advance the current State's name is the applied
\* transition's to_state and its data is a mapping holding exactly the items
\* of the data before the call with the items the action wrote put into it;
\* when nothing was written the data equals the data before the call.
C6_DataCarriedForward ==
    (last.op = "advance" /\ last.result = "True") =>
        /\ CurValue.name = Ts[last.calls[Len(last.calls)].t].to_state
        /\ ~CurValue.is_none
        /\ CurValue.data = PutAll(last.pre.value.data, WritesOf(last.calls))
        /\ WritesOf(last.calls) = <<>> => CurValue.data = last.pre.value.data

\* C6's case: {pending, {k: v}} advanced on START in the test workflow.
C6_Witness ==
    /\ workflow = "test" /\ last.op = "advance" /\ last.event = "START"
    /\ last.pre.value = [name |-> "pending", is_none |-> FALSE, data |-> [x \in {"k"} |-> "v"]]
    /\ CurValue = [name |-> "in_progress", is_none |-> FALSE, data |-> [x \in {"k"} |-> "v"]]

\* C7 (as claimed): every State object that a successful advance has replaced
\* still has the name and data it had when that advance was called.
C7_ReplacedStateKeepsOriginalValue ==
    \A i \in 1..Len(orig) : StateValue(objs, dicts, i) = orig[i]

\* The names a workflow declares: its initial state and the from_state and
\* to_state of its transitions.
DeclaredNames ==
    {initial_state(workflow)}
        \cup {Ts[i].from_state : i \in 1..Len(Ts)} \cup {Ts[i].to_state : i \in 1..Len(Ts)}

\* C8 (as claimed): the current State's name is always a declared name.
C8_StateNameDeclared == CurValue.name \in DeclaredNames

\* C9: get_available_events() returns a list without duplicates whose
\* elements are exactly the events of the transitions declared from the
\* current state; it calls no guard and leaves the machine as it was; in the
\* test workflow's pending state they are START and CANCEL, and from a state
\* with no outgoing transition the list is empty.
C9_AvailableEvents ==
    last.op = "get_available_events" =>
        LET l == last.events
            from == {i \in 1..Len(Ts) : Ts[i].from_state = CurValue.name}
        IN  /\ \A i, j \in 1..Len(l) : l[i] = l[j] => i = j
            /\ \A e \in Events :
                   (\E i \in 1..Len(l) : l[i] = e) <=> (\E i \in from : Ts[i].event = e)
            /\ \A i \in 1..Len(l) : l[i] \in Events
            /\ last.calls = <<>>
            /\ StateUntouched
            /\ (workflow = "test" /\ CurValue.name = "pending") =>
                   {l[i] : i \in 1..Len(l)} = {"START", "CANCEL"}
            /\ from = {} => l = <<>>

\* C9's case: in_progress of the review workflow, where two transitions
\* share APPROVE: the list holds APPROVE once.
C9_Witness ==
    /\ last.op = "get_available_events"
    /\ workflow = "review" /\ CurValue.name = "in_progress"
    /\ Len(last.events) = 2

C11_RoundTrip ==
    last.op \in {"from_dict(to_dict)", "deserialize(serialize)"} =>
        /\ last.result = "machine"
        /\ last.rebuilt = CurValue
        /\ last.rebuilt_ts = Ts
        /\ StateUntouched

\* C11's case: a State holding a JSON true and a string goes through
\* serialize and deserialize after an advance.
C11_Witness ==
    /\ last.op = "deserialize(serialize)"
    /\ Len(objs) = 2
    /\ CurValue.name = "in_progress"
    /\ CurValue.data = [x \in {"deadline_passed", "k"} |-> IF x = "k" THEN "v" ELSE "True"]
    /\ last.rebuilt = CurValue

\* C12 (as claimed): the data of every State object is a mapping, never None.
C12_DataNeverNone ==
    \A i \in 1..Len(objs) : objs[i].data # NoneRef

----------------------------------------------------------------------------
(***************************************************************************)
(* Text. A str is a sequence of characters; the characters followed are a  *)
(* letter in both cases, a second letter, and a blank.                     *)
(***************************************************************************)

\* The texts are followed up to this length.
MaxContentLen == 3

Chars == {"a", "A", "b", " "}

\* Every str of at most n characters.
Strs(n) == UNION {[1..k -> Chars] : k \in 0..n}

\* str.lower()
str_lower(s) ==
    [i \in 1..Len(s) |-> IF s[i] = "A" THEN "a" ELSE IF s[i] = "B" THEN "b" ELSE s[i]]

\* str.upper()
str_upper(s) ==
    [i \in 1..Len(s) |-> IF s[i] = "a" THEN "A" ELSE IF s[i] = "b" THEN "B" ELSE s[i]]

\* The characters str.strip() removes.
Whitespace == {" "}

RECURSIVE str_lstrip(_)
str_lstrip(s) ==
    IF s # <<>> /\ Head(s) \in Whitespace THEN str_lstrip(Tail(s)) ELSE s

RECURSIVE str_rstrip(_)
str_rstrip(s) ==
    IF s # <<>> /\ s[Len(s)] \in Whitespace THEN str_rstrip(SubSeq(s, 1, Len(s) - 1)) ELSE s

\* str.strip()
str_strip(s) == str_rstrip(str_lstrip(s))

\* sub in s
str_contains(sub, s) ==
    \E i \in 0..(Len(s) - Len(sub)) : SubSeq(s, i + 1, i + Len(sub)) = sub

----------------------------------------------------------------------------
(***************************************************************************)
(* The keyword classifier (workflows/classifiers/keyword.py).              *)
(***************************************************************************)

\* A keyword map holds at most this many phrases.
MaxKeywords == 2

\* ClassifierEventType
ClassifierEvents == {"APPROVED", "INFO_REQUESTED"}

\* The phrases a keyword map is made of: __init__ takes any dict of str.
KeywordPhrases == {<<>>, <<" ">>, <<"A">>, <<"b">>, <<"a", "b">>}

\* keyword_map: a dict, so its phrases are distinct and keep their
\* declaration order.
KeywordMaps ==
    {m \in UNION {[1..n -> [keyword : KeywordPhrases, event_type : ClassifierEvents]] :
                     n \in 1..MaxKeywords} :
        \A i, j \in 1..Len(m) : i # j => m[i].keyword # m[j].keyword}

\* KeywordClassifier(keyword_map, case_sensitive)
KeywordClassifier(keyword_map, case_sensitive) ==
    [keyword_map |-> keyword_map, case_sensitive |-> case_sensitive]

\* for keyword, event_type in self._keyword_map.items(): ... return None
RECURSIVE classify_items(_, _, _)
classify_items(self, search_content, i) ==
    IF i > Len(self.keyword_map) THEN "None"
    ELSE LET keyword == self.keyword_map[i].keyword
             search_keyword == IF self.case_sensitive THEN keyword ELSE str_lower(keyword)
         IN  IF str_contains(search_keyword, search_content)
             THEN self.keyword_map[i].event_type
             ELSE classify_items(self, search_content, i + 1)

\* A classify that compares with identical case whatever the flag.
KeywordClassifier_classify_same_case(self, content) ==
    classify_items([self EXCEPT !.case_sensitive = TRUE], content, 1)

\* KeywordClassifier.classify(content)
KeywordClassifier_classify(self, content) ==
    classify_items(self, IF self.case_sensitive THEN content ELSE str_lower(content), 1)

InitKeyword ==
    /\ NoMachine
    /\ reg = Idle
    /\ run = Idle
    /\ \E m \in KeywordMaps, cs \in BOOLEAN :
        probe = [op |-> "KeywordClassifier", self |-> KeywordClassifier(m, cs),
                 content |-> <<>>, result |-> "None"]

\* classifier.classify(content); classify keeps nothing between calls, so one
\* call of each classifier is followed.
Classify(content) ==
    /\ probe.op = "KeywordClassifier"
    /\ probe' = [op |-> "classify", self |-> probe.self, content |-> content,
                 result |-> KeywordClassifier_classify(probe.self, content)]
    /\ UNCHANGED <<machine_vars, reg, run>>

NextKeyword ==
    /\ probe.op = "KeywordClassifier"
    /\ \E content \in Strs(MaxContentLen) : Classify(content)

SpecKeyword == InitKeyword /\ [][NextKeyword]_vars

\* Two characters are the same, or the same letter in two cases.
SameLetter(c, d) == c = d \/ {c, d} = {"a", "A"} \/ {c, d} = {"b", "B"}

\* The phrase occurs in the text at some position, under the case rule.
PhraseOccurs(phrase, text, case_sensitive) ==
    \E at \in 0..(Len(text) - Len(phrase)) :
        \A k \in 1..Len(phrase) :
            IF case_sensitive THEN text[at + k] = phrase[k]
            ELSE SameLetter(text[at + k], phrase[k])

\* C13: classify returns the event of the first phrase, in declaration
\* order, that occurs in the text (ignoring case unless case_sensitive is
\* set, with identical case when it is set), and None when no phrase occurs.
C13_FirstPhraseWins ==
    probe.op = "classify" =>
        LET map == probe.self.keyword_map
            hits == {i \in 1..Len(map) :
                        PhraseOccurs(map[i].keyword, probe.content, probe.self.case_sensitive)}
        IN  IF hits = {} THEN probe.result = "None"
            ELSE \E i \in hits : /\ \A j \in hits : i <= j
                                 /\ probe.result = map[i].event_type

\* C13's case: two declared phrases occur in the text, the first one only
\* when case is ignored, and the first one's event is returned.
C13_Witness ==
    /\ probe.op = "classify"
    /\ ~probe.self.case_sensitive
    /\ probe.self.keyword_map = <<[keyword |-> <<"A">>, event_type |-> "APPROVED"],
                                  [keyword |-> <<"b">>, event_type |-> "INFO_REQUESTED"]>>
    /\ probe.content = <<"a", " ", "b">>
    /\ probe.result = "APPROVED"

\* C14 (as claimed): a text that is empty or made of blanks only is
\* classified as None, whatever the keyword map.
C14_BlankTextNeverMatches ==
    (probe.op = "classify" /\ \A k \in 1..Len(probe.content) : probe.content[k] = " ")
        => probe.result = "None"

----------------------------------------------------------------------------
(***************************************************************************)
(* The text-completion classifier (workflows/classifiers/llm.py): how it   *)
(* reads the raw response.                                                 *)
(***************************************************************************)

\* The event enums a classifier is built for: the member names, in
\* definition order. None is member 0.
EventEnums == {<< <<"A">>, <<"A", "B">> >>, << <<"a", "B">>, <<"B">> >>}

\* for event in self._event_type_enum: if event.name.upper() == response_clean
RECURSIVE parse_members(_, _, _)
parse_members(event_type_enum, response_clean, i) ==
    IF i > Len(event_type_enum) THEN 0
    ELSE IF str_upper(event_type_enum[i]) = response_clean THEN i
    ELSE parse_members(event_type_enum, response_clean, i + 1)

\* A _parse_response that compares the response as it came.
LLMClassifier_parse_response_unstripped(event_type_enum, response) ==
    parse_members(event_type_enum, str_upper(response), 1)

\* LLMClassifier._parse_response(response)
LLMClassifier_parse_response(event_type_enum, response) ==
    parse_members(event_type_enum, str_upper(str_strip(response)), 1)

InitLLM ==
    /\ NoMachine
    /\ reg = Idle
    /\ run = Idle
    /\ \E enum \in EventEnums :
        probe = [op |-> "LLMClassifier", event_type_enum |-> enum, response |-> <<>>,
                 result |-> 0]

\* self._parse_response(response); nothing is kept between calls, so one
\* call of each classifier is followed.
ParseResponse(response) ==
    /\ probe.op = "LLMClassifier"
    /\ probe' = [op |-> "_parse_response", event_type_enum |-> probe.event_type_enum,
                 response |-> response,
                 result |-> LLMClassifier_parse_response(probe.event_type_enum, response)]
    /\ UNCHANGED <<machine_vars, reg, run>>

NextLLM ==
    /\ probe.op = "LLMClassifier"
    /\ \E response \in Strs(MaxContentLen) : ParseResponse(response)

SpecLLM == InitLLM /\ [][NextLLM]_vars

\* Two texts are the same but for the case of their letters.
SameIgnoringCase(x, y) ==
    /\ Len(x) = Len(y)
    /\ \A k \in 1..Len(x) : SameLetter(x[k], y[k])

\* The result is the first member whose name is the text ignoring case, and
\* None when there is no such member.
ResultNames(text) ==
    LET named == {i \in 1..Len(probe.event_type_enum) :
                     SameIgnoringCase(probe.event_type_enum[i], text)}
    IN  IF named = {} THEN probe.result = 0
        ELSE probe.result \in named /\ \A i \in named : probe.result <= i

\* The text between the first and the last character of s that is not a
\* blank.
Unpadded(s) ==
    LET inked == {i \in 1..Len(s) : s[i] # " "}
    IN  IF inked = {} THEN <<>>
        ELSE SubSeq(s, CHOOSE i \in inked : \A j \in inked : i <= j,
                       CHOOSE i \in inked : \A j \in inked : j <= i)

\* C15 (as claimed): the response is read as the event whose name is the
\* response ignoring case, and as None when the response is not exactly an
\* event name.
C15_ExactNameOnly ==
    probe.op = "_parse_response" => ResultNames(probe.response)

\* C15 (amended): the response is read as the event whose name is the
\* response without its leading and trailing whitespace, ignoring case, and
\* as None when no event has that name.
C15_NameIgnoringCaseAndPadding ==
    probe.op = "_parse_response" => ResultNames(Unpadded(probe.response))

\* C15's case: a padded lower-case response names the second member.
C15_Witness ==
    /\ probe.op = "_parse_response"
    /\ probe.event_type_enum = << <<"A">>, <<"A", "B">> >>
    /\ probe.response = <<" ", "a", "b">>
    /\ probe.result = 2

----------------------------------------------------------------------------
(***************************************************************************)
(* The workflow registry (workflows/registry.py). _workflows is one dict   *)
(* of the class, from names to WorkflowDefinition objects; a definition is *)
(* an object, and enable and disable write its enabled attribute in place. *)
(* reg.defs holds the definition objects in creation order (a definition   *)
(* is named by its index, None by 0), reg.workflows the items of           *)
(* _workflows in insertion order.                                          *)
(***************************************************************************)

\* Definitions are constructed until this many exist.
MaxDefs == 3

WorkflowNames == {"test_workflow", "workflow_0"}

\* WorkflowDefinition(name, state_machine_class, classifier, enabled)
WorkflowDefinition(name, enabled) == [name |-> name, enabled |-> enabled]

\* name in cls._workflows
dict_contains(workflows, name) == \E i \in 1..Len(workflows) : workflows[i].name = name

\* cls._workflows.get(name)
dict_get(workflows, name) ==
    IF dict_contains(workflows, name)
    THEN workflows[CHOOSE i \in 1..Len(workflows) : workflows[i].name = name].def
    ELSE 0

\* cls._workflows[name] = d: an existing key keeps its place, a new one goes last
dict_setitem(workflows, name, d) ==
    IF dict_contains(workflows, name)
    THEN [i \in 1..Len(workflows) |->
             IF workflows[i].name = name THEN [name |-> name, def |-> d] ELSE workflows[i]]
    ELSE Append(workflows, [name |-> name, def |-> d])

\* del cls._workflows[name], for a name that is a key
dict_delitem(workflows, name) == SelectSeq(workflows, LAMBDA item : item.name # name)

\* What a call gives back: the registry as it leaves it, and its result.
Returns(r, result) == [r |-> r, result |-> result]

\* A register that keeps the entry a name already has.
WorkflowRegistry_register_setdefault(r, d) ==
    IF dict_contains(r.workflows, r.defs[d].name) THEN Returns(r, "None")
    ELSE Returns([r EXCEPT !.workflows = Append(@, [name |-> r.defs[d].name, def |-> d])],
                 "None")

\* WorkflowRegistry.register(definition)
WorkflowRegistry_register(r, d) ==
    Returns([r EXCEPT !.workflows = dict_setitem(@, r.defs[d].name, d)], "None")

\* del cls._workflows[name]; return True
delete_and_return(r, name) ==
    IF dict_contains(r.workflows, name)
    THEN Returns([r EXCEPT !.workflows = dict_delitem(@, name)], "True")
    ELSE Returns(r, "KeyError")

\* An unregister that removes the name if it is there and reports success.
WorkflowRegistry_unregister_discard(r, name) ==
    Returns([r EXCEPT !.workflows = dict_delitem(@, name)], "True")

\* WorkflowRegistry.unregister(name)
WorkflowRegistry_unregister(r, name) ==
    IF dict_contains(r.workflows, name) THEN delete_and_return(r, name)
    ELSE Returns(r, "False")

\* WorkflowRegistry.get(name)
WorkflowRegistry_get(r, name) == dict_get(r.workflows, name)

\* WorkflowRegistry.list_all()
WorkflowRegistry_list_all(r) == [i \in 1..Len(r.workflows) |-> r.workflows[i].def]

\* A list_enabled that does not look at the flag.
WorkflowRegistry_list_enabled_unfiltered(r) ==
    [i \in 1..Len(r.workflows) |-> r.workflows[i].def]

\* WorkflowRegistry.list_enabled()
WorkflowRegistry_list_enabled(r) ==
    SelectSeq(WorkflowRegistry_list_all(r), LAMBDA d : r.defs[d].enabled)

\* cls._workflows[name].enabled = enabled; return True
set_enabled_and_return(r, name, enabled) ==
    IF dict_contains(r.workflows, name)
    THEN Returns([r EXCEPT !.defs[dict_get(r.workflows, name)].enabled = enabled], "True")
    ELSE Returns(r, "KeyError")

\* WorkflowRegistry.enable(name)
WorkflowRegistry_enable(r, name) ==
    IF dict_contains(r.workflows, name) THEN set_enabled_and_return(r, name, TRUE)
    ELSE Returns(r, "False")

\* WorkflowRegistry.disable(name)
WorkflowRegistry_disable(r, name) ==
    IF dict_contains(r.workflows, name) THEN set_enabled_and_return(r, name, FALSE)
    ELSE Returns(r, "False")

\* WorkflowRegistry.clear()
WorkflowRegistry_clear(r) == Returns([r EXCEPT !.workflows = <<>>], "None")

----------------------------------------------------------------------------
\* The registry called by one caller, one call after the other.

Callers == {"mutator", "reader"}

NoRegCall ==
    [op |-> "none", name |-> "", def |-> 0, result |-> "", found |-> 0, list |-> <<>>,
     pre |-> [defs |-> <<>>, workflows |-> <<>>]]

\* A caller that is not in a call.
NoFrame ==
    [op |-> "none", name |-> "", def |-> 0, pc |-> "idle", di_used |-> 0, pos |-> 0,
     acc |-> <<>>, result |-> "", found |-> 0, calls |-> 0]

RegPre == [defs |-> reg.defs, workflows |-> reg.workflows]

\* The registry after a call, and the record of the call.
Called1(o, op, name, d, found, list) ==
    reg' = [o.r EXCEPT !.last = [op |-> op, name |-> name, def |-> d, result |-> o.result,
                                 found |-> found, list |-> list, pre |-> RegPre]]

InitRegistry ==
    /\ NoMachine
    /\ probe = Idle
    /\ run = Idle
    /\ reg = [defs |-> <<>>, workflows |-> <<>>, last |-> NoRegCall,
              frames |-> [c \in Callers |-> NoFrame]]

\* d = WorkflowDefinition(name, ..., enabled)
Construct(name, enabled) ==
    /\ Len(reg.defs) < MaxDefs
    /\ Called1(Returns([reg EXCEPT !.defs = Append(@, WorkflowDefinition(name, enabled))],
                       "definition"),
               "WorkflowDefinition", name, Len(reg.defs) + 1, 0, <<>>)
    /\ UNCHANGED <<machine_vars, probe, run>>

Register(d) ==
    /\ Called1(WorkflowRegistry_register(reg, d), "register", reg.defs[d].name, d, 0, <<>>)
    /\ UNCHANGED <<machine_vars, probe, run>>

Unregister(name) ==
    /\ Called1(WorkflowRegistry_unregister(reg, name), "unregister", name, 0, 0, <<>>)
    /\ UNCHANGED <<machine_vars, probe, run>>

Enable(name) ==
    /\ Called1(WorkflowRegistry_enable(reg, name), "enable", name, 0, 0, <<>>)
    /\ UNCHANGED <<machine_vars, probe, run>>

Disable(name) ==
    /\ Called1(WorkflowRegistry_disable(reg, name), "disable", name, 0, 0, <<>>)
    /\ UNCHANGED <<machine_vars, probe, run>>

RegistryGet(name) ==
    /\ LET d == WorkflowRegistry_get(reg, name) IN
        Called1(Returns(reg, IF d = 0 THEN "None" ELSE "definition"), "get", name, 0, d, <<>>)
    /\ UNCHANGED <<machine_vars, probe, run>>

ListAll ==
    /\ Called1(Returns(reg, "list"), "list_all", "", 0, 0, WorkflowRegistry_list_all(reg))
    /\ UNCHANGED <<machine_vars, probe, run>>

ListEnabled ==
    /\ Called1(Returns(reg, "list"), "list_enabled", "", 0, 0,
               WorkflowRegistry_list_enabled(reg))
    /\ UNCHANGED <<machine_vars, probe, run>>

Clear ==
    /\ Called1(WorkflowRegistry_clear(reg), "clear", "", 0, 0, <<>>)
    /\ UNCHANGED <<machine_vars, probe, run>>

NextRegistry ==
    \/ \E name \in WorkflowNames, enabled \in BOOLEAN : Construct(name, enabled)
    \/ \E d \in 1..Len(reg.defs) : Register(d)
    \/ \E name \in WorkflowNames : Unregister(name)
    \/ \E name \in WorkflowNames : Enable(name)
    \/ \E name \in WorkflowNames : Disable(name)
    \/ \E name \in WorkflowNames : RegistryGet(name)
    \/ ListAll
    \/ ListEnabled
    \/ Clear

SpecRegistry == InitRegistry /\ [][NextRegistry]_vars

\* The definitions list_all gives for a name.
ListedFor(r, name) ==
    {i \in 1..Len(WorkflowRegistry_list_all(r)) :
        r.defs[WorkflowRegistry_list_all(r)[i]].name = name}

\* C16: after register(d), also when the name of d was registered to
\* another definition before, get(name) is d, list_all holds exactly one
\* definition for the name and it is d, so the flag seen for the name is
\* d's; the entries of the other names and every flag are as they were.
C16_RegisterOverwrites ==
    reg.last.op = "register" =>
        LET d == reg.last.def
            name == reg.defs[d].name
        IN  /\ reg.last.result = "None"
            /\ WorkflowRegistry_get(reg, name) = d
            /\ Cardinality(ListedFor(reg, name)) = 1
            /\ \A i \in ListedFor(reg, name) : WorkflowRegistry_list_all(reg)[i] = d
            /\ (\E i \in 1..Len(WorkflowRegistry_list_enabled(reg)) :
                    WorkflowRegistry_list_enabled(reg)[i] = d) <=> reg.defs[d].enabled
            /\ \A other \in WorkflowNames \ {name} :
                   WorkflowRegistry_get(reg, other) = WorkflowRegistry_get(reg.last.pre, other)
            /\ reg.defs = reg.last.pre.defs

\* C16's case: the name was registered to an enabled definition, and a
\* second, disabled definition of the same name is registered over it.
C16_Witness ==
    /\ reg.last.op = "register"
    /\ reg.last.def = 2
    /\ WorkflowRegistry_get(reg.last.pre, "test_workflow") = 1
    /\ reg.defs[1] = WorkflowDefinition("test_workflow", TRUE)
    /\ reg.defs[2] = WorkflowDefinition("test_workflow", FALSE)
    /\ WorkflowRegistry_get(reg, "test_workflow") = 2
    /\ WorkflowRegistry_list_enabled(reg) = <<>>

\* C17: enable, disable and unregister of a name that is not registered
\* return False, raise nothing, and leave the registered names, their
\* definitions and every definition's flag as they were.
C17_UnknownNameNoEffect ==
    (/\ reg.last.op \in {"enable", "disable", "unregister"}
     /\ WorkflowRegistry_get(reg.last.pre, reg.last.name) = 0)
        => /\ reg.last.result = "False"
           /\ reg.workflows = reg.last.pre.workflows
           /\ reg.defs = reg.last.pre.defs

\* C17's case: unregister of a name that is not registered while another
\* name is registered and enabled.
C17_Witness ==
    /\ reg.last.op = "unregister"
    /\ reg.last.name = "workflow_0"
    /\ reg.last.result = "False"
    /\ WorkflowRegistry_get(reg, "workflow_0") = 0
    /\ WorkflowRegistry_get(reg, "test_workflow") # 0
    /\ reg.defs[WorkflowRegistry_get(reg, "test_workflow")].enabled

\* C18: enable, disable and unregister of a registered name return True
\* and take effect (the definition get gives is the same one, with its flag
\* true after enable and false after disable; get gives None after
\* unregister), and list_enabled returns exactly the definitions of
\* list_all whose flag is true, in the same order.
C18_KnownNameTakesEffect ==
    /\ (/\ reg.last.op \in {"enable", "disable", "unregister"}
        /\ WorkflowRegistry_get(reg.last.pre, reg.last.name) # 0)
          => /\ reg.last.result = "True"
             /\ reg.last.op = "unregister" => WorkflowRegistry_get(reg, reg.last.name) = 0
             /\ reg.last.op \in {"enable", "disable"} =>
                   /\ WorkflowRegistry_get(reg, reg.last.name)
                        = WorkflowRegistry_get(reg.last.pre, reg.last.name)
                   /\ reg.defs[WorkflowRegistry_get(reg, reg.last.name)].enabled
                        = (reg.last.op = "enable")
    /\ reg.last.op = "list_enabled" =>
          LET all == WorkflowRegistry_list_all(reg)
              kept == {i \in 1..Len(all) : reg.defs[all[i]].enabled}
          IN  /\ Len(reg.last.list) = Cardinality(kept)
              /\ \A i \in kept :
                     reg.last.list[Cardinality({j \in kept : j <= i})] = all[i]

\* C18's case: of two registered definitions the first has been disabled,
\* and list_enabled gives the second only.
C18_Witness ==
    /\ reg.last.op = "list_enabled"
    /\ WorkflowRegistry_list_all(reg) = <<1, 2>>
    /\ reg.defs[1] = WorkflowDefinition("test_workflow", FALSE)
    /\ reg.defs[2] = WorkflowDefinition("workflow_0", TRUE)
    /\ reg.last.list = <<2>>

----------------------------------------------------------------------------
(***************************************************************************)
(* The registry called by two callers at once. The class has no lock, so a *)
(* call of one thread is cut where another thread can run: between two     *)
(* steps of the iteration in list_enabled (on every interpreter), and      *)
(* between the membership test of unregister, enable and disable and the   *)
(* statement under it (on an interpreter without a global lock).           *)
(* register, get, list_all and clear are one dict operation each. The      *)
(* dict's values iterator raises RuntimeError when the dict's size is not  *)
(* the one it had when the iteration began; the items a surviving          *)
(* iteration visits are taken by position in insertion order.              *)
(***************************************************************************)

\* Each caller makes at most this many calls.
MaxCalls == 2

\* The definitions the callers hold.
HeldDefs ==
    <<WorkflowDefinition("test_workflow", TRUE), WorkflowDefinition("test_workflow", FALSE),
      WorkflowDefinition("workflow_0", TRUE)>>

\* What the registry held when the callers began.
HeldRegistries ==
    {<<>>, <<[name |-> "test_workflow", def |-> 1]>>,
     <<[name |-> "test_workflow", def |-> 1], [name |-> "workflow_0", def |-> 3]>>}

InitRegistryThreads ==
    /\ NoMachine
    /\ probe = Idle
    /\ run = Idle
    /\ \E w \in HeldRegistries :
        reg = [defs |-> HeldDefs, workflows |-> w, last |-> NoRegCall,
               frames |-> [c \in Callers |-> NoFrame]]

\* The caller may begin a call.
MayCall(c) ==
    /\ reg.frames[c].pc \in {"idle", "done"}
    /\ reg.frames[c].calls < MaxCalls

\* The caller's frame as its call begins.
Frame(c, op, name, d) ==
    [NoFrame EXCEPT !.op = op, !.name = name, !.def = d, !.calls = reg.frames[c].calls + 1]

\* The call of c has returned or raised: o is the registry and the result.
Done(c, f, o) ==
    reg' = [o.r EXCEPT !.frames[c] = [f EXCEPT !.pc = "done", !.result = o.result]]

\* WorkflowRegistry.register(d), by the mutating caller
CallRegister(c, d) ==
    /\ c = "mutator"
    /\ MayCall(c)
    /\ Done(c, Frame(c, "register", reg.defs[d].name, d), WorkflowRegistry_register(reg, d))
    /\ UNCHANGED <<machine_vars, probe, run>>

\* WorkflowRegistry.clear(), by the mutating caller
CallClear(c) ==
    /\ c = "mutator"
    /\ MayCall(c)
    /\ Done(c, Frame(c, "clear", "", 0), WorkflowRegistry_clear(reg))
    /\ UNCHANGED <<machine_vars, probe, run>>

\* WorkflowRegistry.get(name), by the reading caller
CallGet(c, name) ==
    /\ c = "reader"
    /\ MayCall(c)
    /\ LET d == WorkflowRegistry_get(reg, name) IN
        Done(c, [Frame(c, "get", name, 0) EXCEPT !.found = d],
             Returns(reg, IF d = 0 THEN "None" ELSE "definition"))
    /\ UNCHANGED <<machine_vars, probe, run>>

\* WorkflowRegistry.list_all(), by the reading caller
CallListAll(c) ==
    /\ c = "reader"
    /\ MayCall(c)
    /\ Done(c, [Frame(c, "list_all", "", 0) EXCEPT !.acc = WorkflowRegistry_list_all(reg)],
            Returns(reg, "list"))
    /\ UNCHANGED <<machine_vars, probe, run>>

\* unregister(name) by the mutating caller, enable(name) and disable(name) by
\* either: the test `if name in cls._workflows`, and `return False` when it fails
CallTest(c, op, name) ==
    /\ op = "unregister" => c = "mutator"
    /\ MayCall(c)
    /\ IF dict_contains(reg.workflows, name)
       THEN reg' = [reg EXCEPT !.frames[c] = [Frame(c, op, name, 0) EXCEPT !.pc = "found"]]
       ELSE Done(c, Frame(c, op, name, 0), Returns(reg, "False"))
    /\ UNCHANGED <<machine_vars, probe, run>>

\* The statement under a test that passed: del cls._workflows[name], or
\* cls._workflows[name].enabled = ..., then return True
AfterTest(c) ==
    /\ reg.frames[c].pc = "found"
    /\ LET f == reg.frames[c] IN
        Done(c, f, IF f.op = "unregister" THEN delete_and_return(reg, f.name)
                   ELSE set_enabled_and_return(reg, f.name, f.op = "enable"))
    /\ UNCHANGED <<machine_vars, probe, run>>

\* WorkflowRegistry.list_enabled(), by the reading caller: the iteration over
\* cls._workflows.values() begins
CallListEnabled(c) ==
    /\ c = "reader"
    /\ MayCall(c)
    /\ reg' = [reg EXCEPT !.frames[c] =
                  [Frame(c, "list_enabled", "", 0) EXCEPT !.pc = "iter",
                                                          !.di_used = Len(reg.workflows)]]
    /\ UNCHANGED <<machine_vars, probe, run>>

\* One step of the list comprehension: the iterator's size check, then the
\* next value and its `if w.enabled`, or the end of the list.
NextValue(c) ==
    /\ reg.frames[c].pc = "iter"
    /\ LET f == reg.frames[c] IN
        IF Len(reg.workflows) # f.di_used THEN Done(c, f, Returns(reg, "RuntimeError"))
        ELSE IF f.pos >= Len(reg.workflows) THEN Done(c, f, Returns(reg, "list"))
        ELSE LET d == reg.workflows[f.pos + 1].def IN
             reg' = [reg EXCEPT !.frames[c] =
                        [f EXCEPT !.pos = f.pos + 1,
                                  !.acc = IF reg.defs[d].enabled THEN Append(f.acc, d)
                                          ELSE f.acc]]
    /\ UNCHANGED <<machine_vars, probe, run>>

NextRegistryThreads ==
    \E c \in Callers :
        \/ \E d \in 1..Len(reg.defs) : CallRegister(c, d)
        \/ CallClear(c)
        \/ \E name \in WorkflowNames : CallGet(c, name)
        \/ CallListAll(c)
        \/ \E op \in {"unregister", "enable", "disable"}, name \in WorkflowNames :
               CallTest(c, op, name)
        \/ AfterTest(c)
        \/ CallListEnabled(c)
        \/ NextValue(c)

SpecRegistryThreads == InitRegistryThreads /\ [][NextRegistryThreads]_vars

\* C19 (as claimed): whatever the interleaving of the two callers, no call
\* of the registry raises.
C19_NoCallRaises ==
    \A c \in Callers : reg.frames[c].result \notin {"KeyError", "RuntimeError"}

----------------------------------------------------------------------------
(***************************************************************************)
(* The request id of a subject line (email/sender.py). A subject is a      *)
(* sequence of symbols: the literal "[REQ-" the pattern begins with, the   *)
(* digits 0 and 1, a run of 4301 digits 9 taken as one symbol, the closing *)
(* bracket, and "x" for any other character.                               *)
(***************************************************************************)

\* The subjects are followed up to this many symbols.
MaxSubjectLen == 6

LongRun == "9{4301}"

SubjectChars == {"[REQ-", "0", "1", LongRun, "]", "x"}

\* \d
Digit == {"0", "1", LongRun}

Subjects(n) == UNION {[1..k -> SubjectChars] : k \in 0..n}

\* int(str) refuses a text of more digits than this (the interpreter's
\* default limit for integer string conversion).
int_max_str_digits == 4300

\* The number of characters of a text of digits.
RECURSIVE str_len(_)
str_len(digits) ==
    IF digits = <<>> THEN 0
    ELSE (IF Head(digits) = LongRun THEN 4301 ELSE 1) + str_len(Tail(digits))

\* The value of a text of digits 0 and 1, read in base ten.
RECURSIVE decimal(_)
decimal(digits) ==
    IF digits = <<>> THEN 0
    ELSE 10 * decimal(SubSeq(digits, 1, Len(digits) - 1))
            + (IF digits[Len(digits)] = "1" THEN 1 ELSE 0)

\* int(text)
int(digits) ==
    IF str_len(digits) > int_max_str_digits THEN [kind |-> "ValueError", value |-> 0]
    ELSE [kind |-> "int", value |-> decimal(digits)]

\* (\d+), greedy: the last position of the run of digits that begins at i,
\* and i - 1 when subject[i] is no digit
RECURSIVE digits_to(_, _)
digits_to(subject, i) ==
    IF i <= Len(subject) /\ subject[i] \in Digit THEN digits_to(subject, i + 1) ELSE i - 1

\* REQUEST_ID_PATTERN matched at position i: the literal, one digit or more,
\* the closing bracket
match_at(subject, i) ==
    /\ subject[i] = "[REQ-"
    /\ digits_to(subject, i + 1) > i
    /\ digits_to(subject, i + 1) < Len(subject)
    /\ subject[digits_to(subject, i + 1) + 1] = "]"

\* REQUEST_ID_PATTERN.search(subject), scanning from position i: the
\* position of the leftmost match, 0 when there is none
RECURSIVE search_from(_, _)
search_from(subject, i) ==
    IF i > Len(subject) THEN 0
    ELSE IF match_at(subject, i) THEN i
    ELSE search_from(subject, i + 1)

\* match.group(1)
group1(subject, i) == SubSeq(subject, i + 1, digits_to(subject, i + 1))

\* EmailSender.extract_request_id(subject)
extract_request_id(subject) ==
    LET match == search_from(subject, 1) IN
    IF match # 0 THEN int(group1(subject, match))
    ELSE [kind |-> "None", value |-> 0]

InitRequestId ==
    /\ NoMachine
    /\ reg = Idle
    /\ run = Idle
    /\ probe = [op |-> "EmailSender", subject |-> <<>>, result |-> [kind |-> "None", value |-> 0]]

\* EmailSender.extract_request_id(subject): a classmethod that keeps
\* nothing, so one call is followed.
ExtractRequestId(subject) ==
    /\ probe.op = "EmailSender"
    /\ probe' = [op |-> "extract_request_id", subject |-> subject,
                 result |-> extract_request_id(subject)]
    /\ UNCHANGED <<machine_vars, reg, run>>

NextRequestId ==
    /\ probe.op = "EmailSender"
    /\ \E subject \in Subjects(MaxSubjectLen) : ExtractRequestId(subject)

SpecRequestId == InitRequestId /\ [][NextRequestId]_vars

\* The occurrences of [REQ-<digits>] in a subject: where each begins and
\* ends.
Occurrences(subject) ==
    {o \in (1..Len(subject)) \X (1..Len(subject)) :
        /\ o[2] >= o[1] + 2
        /\ subject[o[1]] = "[REQ-"
        /\ subject[o[2]] = "]"
        /\ \A k \in (o[1] + 1)..(o[2] - 1) : subject[k] \in Digit}

\* C20 (as claimed): extract_request_id returns the integer written in the
\* first occurrence of [REQ-<digits>] of the subject, and None when the
\* subject has no occurrence.
C20_FirstOccurrence ==
    probe.op = "extract_request_id" =>
        LET occ == Occurrences(probe.subject) IN
        IF occ = {} THEN probe.result.kind = "None"
        ELSE LET first == CHOOSE o \in occ : \A q \in occ : o[1] <= q[1]
                 digits == SubSeq(probe.subject, first[1] + 1, first[2] - 1)
             IN  /\ probe.result.kind = "int"
                 /\ (\A k \in 1..Len(digits) : digits[k] # LongRun)
                        => probe.result.value = decimal(digits)

----------------------------------------------------------------------------
(***************************************************************************)
(* Inbound dispatch (worker/tasks/process_inbound_emails.py) with the      *)
(* receiver's grouping (email/receiver.py). The provider stands for any    *)
(* AbstractEmailProvider: it returns the fetched messages, and its         *)
(* mark_processed returns or raises. (The provider the driver constructs,  *)
(* SESEmailProvider(s3_bucket=None), fetches nothing: the empty inbox.)    *)
(* The database session is not in the source: what it gives is taken from  *)
(* the description of the driver (load the request, load the latest        *)
(* persisted State, append).                                               *)
(***************************************************************************)

\* A run fetches at most this many messages.
MaxMessages == 2

\* RequestType: the one type there is
RequestType == "GDPR_DATA_REQUEST"

\* The request ids subjects carry: request 1, and request 10, which may not
\* exist.
RequestIds == {1, 10}

\* RequestStatus, and "absent" for an id session.get finds no Request for
OpenStatuses == {"PENDING", "IN_PROGRESS", "AWAITING_RESPONSE"}
TerminalStatuses == {"COMPLETED", "CANCELLED"}

\* Subjects: "x[REQ-1]", "[REQ-10][REQ-1]", "x" (no id), "[REQ-]" (malformed)
\* and "[REQ-99...9]" with 4301 digits.
InboundSubjects ==
    {<<"x", "[REQ-", "1", "]">>, <<"[REQ-", "1", "0", "]", "[REQ-", "1", "]">>,
     <<"x">>, <<"[REQ-", "]">>, <<"[REQ-", LongRun, "]">>}

\* Bodies: one the classifier reads as the event START, one it cannot
\* classify, one it fails on.
Bodies == {"START", "", "!"}

\* EmailMessage: the message fetched i-th has message_id i and was received
\* at time i.
EmailMessage(i, subject, body_text) ==
    [message_id |-> i, subject |-> subject, body_text |-> body_text, received_at |-> i]

\* provider.receive_emails(): the lists of messages a fetch can return
Inboxes ==
    UNION {{[i \in 1..n |-> EmailMessage(i, f[i][1], f[i][2])] :
               f \in [1..n -> InboundSubjects \X Bodies]} : n \in 0..MaxMessages}

\* A grouping that puts each message at the head of its group.
group_prepend(grouped, request_id, email_message) ==
    IF \E g \in 1..Len(grouped) : grouped[g].request_id = request_id
    THEN [g \in 1..Len(grouped) |->
             IF grouped[g].request_id = request_id
             THEN [grouped[g] EXCEPT !.emails = <<email_message>> \o @]
             ELSE grouped[g]]
    ELSE Append(grouped, [request_id |-> request_id, emails |-> <<email_message>>])

\* grouped[request_id].append(email_message), with the key created at its
\* first message: a dict, kept in insertion order
group_append(grouped, request_id, email_message) ==
    IF \E g \in 1..Len(grouped) : grouped[g].request_id = request_id
    THEN [g \in 1..Len(grouped) |->
             IF grouped[g].request_id = request_id
             THEN [grouped[g] EXCEPT !.emails = Append(@, email_message)]
             ELSE grouped[g]]
    ELSE Append(grouped, [request_id |-> request_id, emails |-> <<email_message>>])

\* for email_message in emails: request_id = self.match_email_to_request(...)
RECURSIVE group_emails(_, _, _)
group_emails(emails, i, grouped) ==
    IF i > Len(emails) THEN [raised |-> FALSE, grouped |-> grouped]
    ELSE LET request_id == extract_request_id(emails[i].subject) IN
         CASE request_id.kind = "ValueError" -> [raised |-> TRUE, grouped |-> <<>>]
           [] request_id.kind = "None" -> group_emails(emails, i + 1, grouped)
           [] OTHER -> group_emails(emails, i + 1,
                                    group_append(grouped, request_id.value, emails[i]))

\* EmailReceiver.fetch_and_group_by_request()
fetch_and_group_by_request(emails) == group_emails(emails, 1, <<>>)

\* A workflow with two events named after the deadline convention, one of
\* them in lower case, and one that is not. An event's name is written as
\* its pieces: SOFT_DEADLINE, deadline, CANCEL.
SOFT_DEADLINE == <<"SOFT_", "DEADLINE">>
lower_deadline == <<"deadline">>
CANCEL == <<"CANCEL">>

EscalationTransitions == <<
    Transition("waiting", SOFT_DEADLINE, "reminded", "condition", "callback"),
    Transition("waiting", lower_deadline, "lapsed", "deadline_passed", "none"),
    Transition("waiting", CANCEL, "cancelled", "default", "none") >>

\* A workflow that both drivers advance: replies start, start again and
\* approve a request, and two deadlines in a row remind and then expire it.
START == <<"START">>
APPROVE == <<"APPROVE">>
DEADLINE == <<"DEADLINE">>

FollowupTransitions == <<
    Transition("pending", START, "in_progress", "default", "none"),
    Transition("in_progress", START, "in_progress", "default", "none"),
    Transition("in_progress", APPROVE, "approved", "default", "callback"),
    Transition("in_progress", DEADLINE, "reminded", "condition", "none"),
    Transition("reminded", DEADLINE, "expired", "default", "none") >>

\* The workflows whose events are written as the pieces of their names.
PieceWorkflows == {"escalation", "followup"}

\* state_machine.get_transitions() of the request type's state machine class
workflow_transitions(w) ==
    CASE w = "escalation" -> EscalationTransitions
      [] w = "followup" -> FollowupTransitions
      [] OTHER -> get_transitions(w)

----------------------------------------------------------------------------
\* What the run works on: the requests and their State history, the email
\* log, the messages marked processed, the counters.

InboundStats ==
    [emails_processed |-> 0, emails_matched |-> 0, workflows_advanced |-> 0, errors |-> 0]

\* stats[counter] += 1
Bump(w, counter) == [w EXCEPT !.stats[counter] = @ + 1]

\* session.get(Request, request_id): the request, or None ("absent")
session_get(requests, request_id) == requests[request_id]

\* The rows of a request with the greatest created_at. created_at is the
\* server's now(), the time the transaction began, so the rows one run adds
\* to a request share it.
latest_rows(w, request_id) ==
    LET created_at == w.created_at[request_id] IN
    {k \in 1..Len(created_at) : \A j \in 1..Len(created_at) : created_at[j] <= created_at[k]}

\* select(RequestStateHistory).where(request_id == ...).order_by(
\* created_at.desc()).limit(1), scalar_one_or_none(): None, or one of the
\* rows with the greatest created_at, as the session holds it ("at" is the row)
latest_state(w, request_id) ==
    IF w.history[request_id] = <<>>
    THEN {[found |-> FALSE, at |-> 0,
           request_state_data |-> Payload(FALSE, "", "dict", EmptyDict)]}
    ELSE {[found |-> TRUE, at |-> k, request_state_data |-> w.loaded[request_id][k]] :
             k \in latest_rows(w, request_id)}

\* The inbound run's load of the latest persisted State of a request. It is
\* written with session.query(...), which the session has to offer; it is
\* taken to load what the run is described to load, the latest State.
query_latest_state(w, request_id) == latest_state(w, request_id)

\* session.add(RequestStateHistory(request_id=..., request_state_data=...)):
\* a row, the object the session holds for it, and its created_at. "by"
\* notes what a row was appended for: a message's id, 0 for none.
add_state_history(w, request_id, request_state_data) ==
    [w EXCEPT !.history[request_id] = Append(@, request_state_data),
              !.loaded[request_id] = Append(@, request_state_data),
              !.created_at[request_id] = Append(@, w.txn),
              !.by[request_id] = Append(@, 0)]

\* State.from_dict keeps the mapping's own "data" dict as the State's data,
\* so what the machine writes to its first State's data is written to the
\* mapping the session holds for the row; the column is a plain JSONB, so the
\* row itself is not rewritten.
held_data(w, request_id, at, m) ==
    IF at = 0 THEN w ELSE [w EXCEPT !.loaded[request_id][at].data = m.dicts[1]]

\* The row whose "data" dict the machine built from the record shares.
shared_row(record) ==
    IF record.found /\ record.request_state_data.has_name
                    /\ record.request_state_data.kind = "dict"
    THEN record.at ELSE 0

\* session.add(RequestEmailLog(request_id=..., is_outgoing=False, ...))
add_email_log(w, request_id, email_message) ==
    [w EXCEPT !.email_log = Append(@, [request_id |-> request_id,
                                       is_outgoing |-> FALSE,
                                       email_subject |-> email_message.subject,
                                       email_body |-> email_message.body_text])]

\* receiver.mark_processed(message_id): the provider marks it, or raises
mark_processed(w, message_id) ==
    {[raised |-> FALSE, w |-> [w EXCEPT !.processed = Append(@, message_id)]],
     [raised |-> TRUE, w |-> w]}

\* workflow_def.create_state_machine(): state_machine_class()
create_state_machine ==
    [raised |-> FALSE,
     m |-> Machine(<<[name |-> initial_state(workflow), data |-> 1]>>, <<EmptyDict>>, 1)]

\* state_machine_class.from_dict(data): cls(state=State.from_dict(data))
StateMachine_from_dict(data) ==
    LET r == State_from_dict(data) IN
    IF r.raised THEN [raised |-> TRUE, m |-> Machine(<<>>, <<>>, 0)]
    ELSE [raised |-> FALSE,
          m |-> Machine(<<[name |-> r.state.name,
                           data |-> IF r.state.is_none THEN NoneRef ELSE 1]>>,
                        IF r.state.is_none THEN <<>> ELSE <<r.state.data>>, 1)]

\* A to_dict that gives the State the machine was built with.
StateMachine_to_dict_loaded(m) == State_to_dict(StateValue(m.objs, m.dicts, 1))

\* state_machine.to_dict()
StateMachine_to_dict(m) == State_to_dict(StateValue(m.objs, m.dicts, m.cur))

\* workflow_def.classifier.classify_async(body_text): an event, None, or the
\* classifier raises
classify_async(body_text) ==
    CASE body_text \in Events ->
            [raised |-> FALSE, matched |-> TRUE,
             event |-> IF workflow \in PieceWorkflows THEN <<body_text>> ELSE body_text]
      [] body_text = "" -> [raised |-> FALSE, matched |-> FALSE, event |-> "None"]
      [] OTHER -> [raised |-> TRUE, matched |-> FALSE, event |-> "None"]

\* What handling one message went through.
NoSeen ==
    [status |-> "not loaded", lookup |-> "not called", decode |-> "not called",
     classify |-> "not called", advance |-> "not called", mark |-> "not called",
     counted |-> FALSE, at |-> 0, shared |-> 0, state |-> [name |-> "", is_none |-> FALSE, data |-> EmptyDict]]

\* except Exception as e: ... stats["errors"] += 1
counted_error(w, seen) == [w |-> Bump(w, "errors"), seen |-> [seen EXCEPT !.counted = TRUE]]

\* continue, or the end of the loop body
handled(w, seen) == [w |-> w, seen |-> seen]

\* await receiver.mark_processed(email_message.message_id), inside the try
mark_or_count(w, email_message, seen) ==
    {IF r.raised THEN counted_error(r.w, [seen EXCEPT !.mark = "raise"])
     ELSE handled(r.w, [seen EXCEPT !.mark = "ok"]) :
        r \in mark_processed(w, email_message.message_id)}

\* Log inbound email; mark email as processed
log_and_mark(w, request_id, email_message, seen) ==
    mark_or_count(add_email_log(w, request_id, email_message), email_message, seen)

\* A save that stores the State the machine was loaded with.
record_advance_stale(w, request_id, email_message, m) ==
    [add_state_history(Bump(w, "workflows_advanced"), request_id,
                       State_to_dict(StateValue(m.objs, m.dicts, 1)))
        EXCEPT !.requests[request_id].last_response_at = email_message.received_at,
               !.by[request_id] = Append(w.by[request_id], email_message.message_id)]

\* A save that does not count the advance.
record_advance_uncounted(w, request_id, email_message, m) ==
    [add_state_history(w, request_id, StateMachine_to_dict(m))
        EXCEPT !.requests[request_id].last_response_at = email_message.received_at,
               !.by[request_id] = Append(w.by[request_id], email_message.message_id)]

\* if advanced: count, snapshot, last_response_at
record_advance(w, request_id, email_message, m) ==
    [add_state_history(Bump(w, "workflows_advanced"), request_id, StateMachine_to_dict(m))
        EXCEPT !.requests[request_id].last_response_at = email_message.received_at,
               !.by[request_id] = Append(w.by[request_id], email_message.message_id)]

\* An advance with no handler of its own: whatever it raises reaches the
\* per-message handler.
try_advance_uncaught(w, request_id, email_message, m, event, seen) ==
    UNION {LET seen1 == [seen EXCEPT !.advance = o.result,
                                     !.state = StateValue(o.m.objs, o.m.dicts, o.m.cur)]
               w1 == held_data(w, request_id, seen.shared, o.m) IN
           IF o.result = "True"
           THEN log_and_mark(record_advance(w1, request_id, email_message, o.m),
                             request_id, email_message, seen1)
           ELSE {counted_error(w1, seen1)}
          : o \in advance(workflow_transitions(workflow), m, event)}

\* try: advanced = await state_machine.advance(event) ... except Exception:
\* logger.warning(...); then the email log and mark_processed
try_advance(w, request_id, email_message, m, event, seen) ==
    UNION {LET seen1 == [seen EXCEPT !.advance = o.result,
                                     !.state = StateValue(o.m.objs, o.m.dicts, o.m.cur)]
               w1 == held_data(w, request_id, seen.shared, o.m) IN
           IF o.result = "True"
           THEN log_and_mark(record_advance(w1, request_id, email_message, o.m),
                             request_id, email_message, seen1)
           ELSE log_and_mark(w1, request_id, email_message, seen1)
          : o \in advance(workflow_transitions(workflow), m, event)}

\* Get or create state machine; classify email
classify_and_advance(w, request_id, email_message, seen) ==
    UNION {LET built == IF record.found THEN StateMachine_from_dict(record.request_state_data)
                        ELSE create_state_machine
               seen0 == [seen EXCEPT !.at = record.at, !.shared = shared_row(record)]
           IN  IF built.raised THEN {counted_error(w, [seen0 EXCEPT !.decode = "raise"])}
               ELSE LET seen1 == [seen0 EXCEPT !.decode = "ok"]
                        c == classify_async(email_message.body_text)
                    IN  CASE c.raised ->
                                {counted_error(w, [seen1 EXCEPT !.classify = "raise"])}
                          [] ~c.matched -> {handled(w, [seen1 EXCEPT !.classify = "None"])}
                          [] OTHER ->
                                try_advance(w, request_id, email_message, built.m, c.event,
                                            [seen1 EXCEPT !.classify =
                                                              email_message.body_text])
          : record \in query_latest_state(w, request_id)}

\* A lookup that does not look at the enabled flag.
lookup_and_handle_any_flag(w, registry, request_id, email_message, seen) ==
    LET workflow_def == WorkflowRegistry_get(registry, RequestType) IN
    IF workflow_def = 0 THEN {handled(w, [seen EXCEPT !.lookup = "absent"])}
    ELSE classify_and_advance(w, request_id, email_message,
                              [seen EXCEPT !.lookup = "enabled"])

\* workflow_def = WorkflowRegistry.get(request.type.value), and the two checks
lookup_and_handle(w, registry, request_id, email_message, seen) ==
    LET workflow_def == WorkflowRegistry_get(registry, RequestType) IN
    CASE workflow_def = 0 -> {handled(w, [seen EXCEPT !.lookup = "absent"])}
      [] ~registry.defs[workflow_def].enabled ->
            {handled(w, [seen EXCEPT !.lookup = "disabled"])}
      [] OTHER -> classify_and_advance(w, request_id, email_message,
                                       [seen EXCEPT !.lookup = "enabled"])

\* A body that skips the message of a closed request without marking it.
handle_message_unmarked(w0, registry, request_id, email_message) ==
    LET w == Bump(w0, "emails_processed")
        request == session_get(w.requests, request_id)
        seen == [NoSeen EXCEPT !.status = request.status]
    IN  CASE request.status = "absent" -> {handled(w, seen)}
          [] request.status \in TerminalStatuses -> {handled(Bump(w, "emails_matched"), seen)}
          [] OTHER -> lookup_and_handle(Bump(w, "emails_matched"), registry, request_id,
                                        email_message, seen)

\* The body of "for email_message in emails": every way it can end
handle_message(w0, registry, request_id, email_message) ==
    LET w == Bump(w0, "emails_processed")
        request == session_get(w.requests, request_id)
        seen == [NoSeen EXCEPT !.status = request.status]
    IN  CASE request.status = "absent" -> {handled(w, seen)}
          [] request.status \in TerminalStatuses ->
                mark_or_count(Bump(w, "emails_matched"), email_message, seen)
          [] OTHER -> lookup_and_handle(Bump(w, "emails_matched"), registry, request_id,
                                        email_message, seen)

----------------------------------------------------------------------------
\* One run of process_inbound_emails.

\* The State histories request 1 may have when the run starts: none, one of
\* the initial state, one that carries no name.
InitHistories ==
    {<<>>, <<Payload(TRUE, "pending", "dict", EmptyDict)>>,
     <<Payload(FALSE, "", "dict", EmptyDict)>>}

NoMessage == EmailMessage(0, <<>>, "")

\* The created_at of rows that earlier transactions added one by one.
EarlierTimes(history) == [k \in 1..Len(history) |-> k - Len(history)]

\* What the rows of earlier transactions were appended for is not known.
EarlierRows(history) == [k \in 1..Len(history) |-> 0 - 1]

NoWorld ==
    [requests |-> [i \in RequestIds |-> [status |-> "absent", last_response_at |-> 0]],
     history |-> [i \in RequestIds |-> <<>>], loaded |-> [i \in RequestIds |-> <<>>],
     created_at |-> [i \in RequestIds |-> <<>>], by |-> [i \in RequestIds |-> <<>>],
     txn |-> 1,
     email_log |-> <<>>, processed |-> <<>>, stats |-> InboundStats]

\* No message handled yet.
NoHandled ==
    [request_id |-> 0, email_message |-> NoMessage, seen |-> NoSeen, pre |-> NoWorld,
     registry |-> [defs |-> <<>>, workflows |-> <<>>]]

InitInbound ==
    /\ workflow \in Workflows
    /\ objs = <<>> /\ dicts = <<>> /\ cur = 0 /\ orig = <<>> /\ last = NoCall
    /\ probe = Idle
    /\ \E enabled \in BOOLEAN, registered \in BOOLEAN :
          reg = [defs |-> <<WorkflowDefinition(RequestType, enabled)>>,
                 workflows |-> IF registered THEN <<[name |-> RequestType, def |-> 1]>>
                               ELSE <<>>,
                 last |-> NoRegCall, frames |-> [c \in Callers |-> NoFrame]]
    /\ \E inbox \in Inboxes, status \in {"PENDING"} \cup TerminalStatuses,
          history \in InitHistories :
          run = [op |-> "process_inbound_emails", phase |-> "start", inbox |-> inbox,
                 grouped |-> <<>>, g |-> 1, e |-> 1,
                 w |-> [NoWorld EXCEPT !.requests[1].status = status,
                                       !.history[1] = history, !.loaded[1] = history,
                                       !.created_at[1] = EarlierTimes(history),
                                       !.by[1] = EarlierRows(history)],
                 trail |-> <<>>, last |-> NoHandled]

\* grouped_emails = await receiver.fetch_and_group_by_request(); on an
\* exception the run logs it and returns its counters
FetchAndGroup ==
    /\ run.op = "process_inbound_emails" /\ run.phase = "start"
    /\ LET r == fetch_and_group_by_request(run.inbox) IN
       run' = [run EXCEPT !.phase = IF r.raised THEN "fetch failed" ELSE "handling",
                          !.grouped = r.grouped]
    /\ UNCHANGED <<machine_vars, probe, reg>>

\* The request the sweep's loop is at.
AtRequest == run.phase = "sweeping" /\ run.i <= Len(run.open_requests)

\* The message the loops are at.
AtMessage == run.phase = "handling" /\ run.g <= Len(run.grouped)

\* One pass of the body of the inner loop.
HandleMessage ==
    /\ run.op = "process_inbound_emails" /\ AtMessage
    /\ LET group == run.grouped[run.g]
           email_message == group.emails[run.e]
           more == run.e < Len(group.emails)
       IN  \E o \in handle_message(run.w, reg, group.request_id, email_message) :
              run' = [run EXCEPT !.w = o.w,
                                 !.g = IF more THEN @ ELSE @ + 1,
                                 !.e = IF more THEN @ + 1 ELSE 1,
                                 !.trail = Append(@, email_message.message_id),
                                 !.last = [request_id |-> group.request_id,
                                           email_message |-> email_message,
                                           seen |-> o.seen, pre |-> run.w,
                                           registry |-> RegPre]]
    /\ UNCHANGED <<machine_vars, probe, reg>>

\* await session.commit(); return stats
Commit ==
    /\ run.op = "process_inbound_emails"
    /\ run.phase = "handling" /\ run.g > Len(run.grouped)
    /\ run' = [run EXCEPT !.phase = "committed"]
    /\ UNCHANGED <<machine_vars, probe, reg>>

\* Between two messages the registry is changed by its other callers.
RegistryChange ==
    /\ \/ run.op = "process_inbound_emails" /\ AtMessage
       \/ run.op = "check_deadlines" /\ AtRequest
    /\ \E o \in {WorkflowRegistry_enable(reg, RequestType),
                 WorkflowRegistry_disable(reg, RequestType),
                 WorkflowRegistry_unregister(reg, RequestType),
                 WorkflowRegistry_register(reg, 1)} :
          /\ o.r # reg
          /\ reg' = o.r
    /\ UNCHANGED <<machine_vars, probe, run>>

NextInbound == FetchAndGroup \/ HandleMessage \/ Commit \/ RegistryChange

SpecInbound == InitInbound /\ [][NextInbound]_vars

----------------------------------------------------------------------------
\* The request id a subject carries: the integer of its first
\* [REQ-<digits>], 0 when it has none.
CarriedId(subject) ==
    LET occ == Occurrences(subject) IN
    IF occ = {} THEN 0
    ELSE LET first == CHOOSE o \in occ : \A q \in occ : o[1] <= q[1] IN
         decimal(SubSeq(subject, first[1] + 1, first[2] - 1))

\* A subject whose id is written in more digits than int() converts.
LongId(subject) == \E k \in 1..Len(subject) : subject[k] = LongRun

\* The fetched messages that carry request id i, in fetch order.
Carrying(inbox, i) ==
    SelectSeq(inbox, LAMBDA em : ~LongId(em.subject) /\ CarriedId(em.subject) = i)

\* The messages grouped under request id i.
GroupOf(grouped, i) ==
    IF \E g \in 1..Len(grouped) : grouped[g].request_id = i
    THEN grouped[CHOOSE g \in 1..Len(grouped) : grouped[g].request_id = i].emails
    ELSE <<>>

\* C21 (as claimed): once the run has fetched, every fetched message whose
\* subject carries a request id is in exactly one group, that id's, in fetch
\* order within the group; a message with an absent or malformed id is in no
\* group, is never handled, and is counted nowhere: the messages counted as
\* processed are the grouped messages handled so far.
C21_GroupedByCarriedId ==
    (run.op = "process_inbound_emails" /\ run.phase # "start") =>
        /\ \A i \in RequestIds : GroupOf(run.grouped, i) = Carrying(run.inbox, i)
        /\ \A g \in 1..Len(run.grouped) :
              /\ run.grouped[g].emails # <<>>
              /\ \A h \in 1..Len(run.grouped) :
                    run.grouped[h].request_id = run.grouped[g].request_id => h = g
        /\ \A k \in 1..Len(run.trail) :
              ~LongId(run.inbox[run.trail[k]].subject)
                  => CarriedId(run.inbox[run.trail[k]].subject) \in RequestIds
        /\ run.w.stats.emails_processed = Len(run.trail)

----------------------------------------------------------------------------
\* The message handled last, and what the run held before and after it.
Handled == run.op = "process_inbound_emails" /\ run.last.request_id # 0

\* The registry, when the message handled last was handled, held an enabled
\* definition for the request's type.
EnabledAtHandling ==
    /\ dict_contains(run.last.registry.workflows, RequestType)
    /\ run.last.registry.defs[dict_get(run.last.registry.workflows, RequestType)].enabled

\* Handling the last message neither classified nor advanced, appended no
\* State snapshot and changed no request.
Skipped ==
    /\ run.last.seen.classify = "not called"
    /\ run.last.seen.advance = "not called"
    /\ run.w.history = run.last.pre.history
    /\ run.w.requests = run.last.pre.requests

\* The message handled last is marked processed by its handling.
MarkedProcessed ==
    run.w.processed = Append(run.last.pre.processed, run.last.email_message.message_id)

\* C22: a message for a request whose status is COMPLETED or CANCELLED is
\* skipped: it is not classified, no advance is called, no snapshot is
\* appended; mark_processed is called for it, and when that call returns the
\* message is marked processed and no error is counted.
C22_ClosedRequestSkippedAndMarked ==
    (Handled /\ run.last.pre.requests[run.last.request_id].status \in TerminalStatuses) =>
        /\ Skipped
        /\ run.w.email_log = run.last.pre.email_log
        /\ run.last.seen.mark # "not called"
        /\ run.last.seen.mark = "ok" =>
              /\ MarkedProcessed
              /\ run.w.stats.errors = run.last.pre.stats.errors

C22_Witness ==
    /\ Handled
    /\ run.last.pre.requests[run.last.request_id].status = "CANCELLED"
    /\ run.last.email_message.body_text = "START"
    /\ EnabledAtHandling
    /\ MarkedProcessed

\* C23: a message for an open request whose type has no definition in the
\* registry, or a disabled one, when the message is handled, is skipped
\* silently: it is not classified, no advance is called, no snapshot is
\* appended and no error is counted.
C23_NoEnabledDefinitionSkipped ==
    (/\ Handled
     /\ run.last.pre.requests[run.last.request_id].status \in OpenStatuses
     /\ ~EnabledAtHandling) =>
        /\ Skipped
        /\ run.w.stats.errors = run.last.pre.stats.errors

\* A message skipped for a definition disabled after the run started, and one
\* skipped for a type that is not registered.
C23_Witness ==
    /\ Handled
    /\ run.last.pre.requests[run.last.request_id].status \in OpenStatuses
    /\ run.last.email_message.body_text = "START"
    /\ run.last.seen.lookup = "disabled"
    /\ Len(run.trail) = 2
    /\ run.w.stats.workflows_advanced = 1

----------------------------------------------------------------------------
\* The request of the message handled last.
LastId == run.last.request_id

\* Handling the last message appended exactly one record to the email log:
\* the inbound record of that message.
LoggedOnce ==
    run.w.email_log =
        Append(run.last.pre.email_log,
               [request_id |-> LastId, is_outgoing |-> FALSE,
                email_subject |-> run.last.email_message.subject,
                email_body |-> run.last.email_message.body_text])

\* C24: for a message whose classification yields an event and whose advance
\* succeeds, exactly one snapshot is appended to the history of the message's
\* request and it decodes to the machine's State after the transition; no
\* other history changes; the request's last_response_at is the message's
\* received_at; exactly one inbound email-log record is appended;
\* mark_processed is called, and when it returns the message is marked.
C24_AdvanceRecorded ==
    (Handled /\ run.last.seen.advance = "True") =>
        /\ Len(run.w.history[LastId]) = Len(run.last.pre.history[LastId]) + 1
        /\ SubSeq(run.w.history[LastId], 1, Len(run.last.pre.history[LastId]))
              = run.last.pre.history[LastId]
        /\ LET snapshot == run.w.history[LastId][Len(run.w.history[LastId])] IN
              /\ ~State_from_dict(snapshot).raised
              /\ State_from_dict(snapshot).state = run.last.seen.state
        /\ \A i \in RequestIds \ {LastId} : run.w.history[i] = run.last.pre.history[i]
        /\ run.w.requests[LastId].last_response_at = run.last.email_message.received_at
        /\ LoggedOnce
        /\ run.last.seen.mark # "not called"
        /\ run.last.seen.mark = "ok" => MarkedProcessed

\* A message advances its request from a persisted State, through a callback
\* that wrote to the data, and is marked.
C24_Witness ==
    /\ Handled /\ run.last.seen.advance = "True"
    /\ run.last.seen.mark = "ok"
    /\ Len(run.last.pre.history[LastId]) = 1
    /\ run.last.seen.state.name = "in_progress"
    /\ run.last.seen.state.data # EmptyDict

\* C25: a message whose advance fails with InvalidTransitionError is handled
\* and advances nothing: no snapshot is appended, no request changes (its
\* last_response_at included), the error counter is unchanged, the run goes
\* on; mark_processed is called, and when it returns the message is marked.
C25_InvalidTransitionHandled ==
    (Handled /\ run.last.seen.advance = "InvalidTransitionError") =>
        /\ run.w.history = run.last.pre.history
        /\ run.w.requests = run.last.pre.requests
        /\ run.w.stats.workflows_advanced = run.last.pre.stats.workflows_advanced
        /\ run.phase \in {"handling", "committed"}
        /\ run.last.seen.mark # "not called"
        /\ run.last.seen.mark = "ok" =>
              /\ MarkedProcessed
              /\ run.w.stats.errors = run.last.pre.stats.errors

\* An event with no transition from the State the first message left, and the
\* message after it is handled too.
C25_Witness ==
    /\ Handled /\ run.last.seen.advance = "InvalidTransitionError"
    /\ run.last.seen.mark = "ok" /\ MarkedProcessed
    /\ run.last.seen.state.name = "in_progress"
    /\ Len(run.trail) = 2

\* A failure, while the message handled last was handled, other than
\* InvalidTransitionError: of the state decoding, the classifier, a guard or
\* an action, or mark_processed.
FailedOtherwise ==
    \/ run.last.seen.decode = "raise"
    \/ run.last.seen.classify = "raise"
    \/ run.last.seen.advance = "Error"
    \/ run.last.seen.mark = "raise"

\* C26 (as claimed): a failure other than InvalidTransitionError while one
\* message is handled counts exactly one error for that message, leaves the
\* message not marked processed, and does not end the run.
C26_FailureCountedOnce ==
    (Handled /\ FailedOtherwise) =>
        /\ run.w.stats.errors = run.last.pre.stats.errors + 1
        /\ run.w.processed = run.last.pre.processed
        /\ run.phase \in {"handling", "committed"}

----------------------------------------------------------------------------
\* The number of State snapshots the database holds.
Snapshots(w) == Len(w.history[1]) + Len(w.history[10])

\* C27: within one run, a message is handled after every message of the same
\* request fetched before it and before every one fetched after it (each
\* message once), and handling one message appends at most one snapshot, to
\* the history of its own request.
C27_FetchOrderOneTransition ==
    [][(run.op = "process_inbound_emails" /\ run'.trail # run.trail) =>
          LET id == run'.last.request_id
              message_id == run'.last.email_message.message_id
          IN  /\ run'.trail = Append(run.trail, message_id)
              /\ \A k \in 1..Len(run.trail) :
                    CarriedId(run.inbox[run.trail[k]].subject) = id
                        => run.trail[k] < message_id
              /\ \A k \in 1..Len(run.inbox) :
                    (k < message_id /\ CarriedId(run.inbox[k].subject) = id)
                        => \E h \in 1..Len(run.trail) : run.trail[h] = k
              /\ Snapshots(run'.w) \in {Snapshots(run.w), Snapshots(run.w) + 1}
              /\ \A i \in RequestIds \ {id} : run'.w.history[i] = run.w.history[i]
      ]_vars

\* Two messages of one request handled, the first advancing it.
C27_Witness ==
    /\ Handled
    /\ run.trail = <<1, 2>>
    /\ CarriedId(run.inbox[1].subject) = CarriedId(run.inbox[2].subject)
    /\ run.last.pre.stats.workflows_advanced = 1
    /\ run.last.seen.advance = "InvalidTransitionError"

----------------------------------------------------------------------------
(***************************************************************************)
(* Deadline sweep (worker/tasks/check_deadlines.py).                       *)
(***************************************************************************)

\* event.name.upper(), piece by piece
name_upper(name) ==
    [k \in 1..Len(name) |-> IF name[k] = "deadline" THEN "DEADLINE" ELSE name[k]]

\* "DEADLINE" in text
contains_DEADLINE(text) == \E k \in 1..Len(text) : text[k] = "DEADLINE"

\* A test on the name as declared.
is_deadline_event_as_declared(event) == contains_DEADLINE(event)

\* if "DEADLINE" in event.name.upper()
is_deadline_event(event) == contains_DEADLINE(name_upper(event))

\* datetime.now(timezone.utc): the time of the sweep
SweepNow == 2

\* The values of deadline_at in a State's data: ISO timestamps with an offset
\* at times 1, 2 and 3, one without an offset, a text that is no timestamp,
\* and the empty text.
DeadlineValues == {"t1", "t2", "t3", "naive", "garbage", ""}

\* datetime.fromisoformat(text)
fromisoformat(text) ==
    CASE text \in {"t1", "naive"} -> [kind |-> IF text = "naive" THEN "naive" ELSE "aware", t |-> 1]
      [] text = "t2" -> [kind |-> "aware", t |-> 2]
      [] text = "t3" -> [kind |-> "aware", t |-> 3]
      [] OTHER -> [kind |-> "ValueError", t |-> 0]

\* deadline_at > now, between a datetime and an aware one
later_than(deadline_at, now) ==
    IF deadline_at.kind = "naive" THEN "TypeError"
    ELSE IF deadline_at.t > now THEN "True" ELSE "False"

SweepStats == [requests_checked |-> 0, deadlines_triggered |-> 0, errors |-> 0]

\* What the sweep went through for one request.
NoSwept ==
    [lookup |-> "not called", record |-> "not loaded", decode |-> "not called",
     deadline |-> "not read", available |-> <<>>, attempts |-> <<>>, counted |-> FALSE,
     at |-> 0, shared |-> 0,
     state |-> [name |-> "", is_none |-> FALSE, data |-> EmptyDict]]

\* continue, or the end of the loop body
swept(w, seen) == [w |-> w, seen |-> seen]

\* except Exception as e: stats["errors"] += 1
swept_error(w, seen) == [w |-> Bump(w, "errors"), seen |-> [seen EXCEPT !.counted = TRUE]]

\* A loop over the candidates that goes on after an advance that succeeded.
RECURSIVE try_deadline_events_no_break(_, _, _, _, _, _)
try_deadline_events_no_break(w, request_id, m, events, i, seen) ==
    IF i > Len(events) THEN {swept(w, seen)}
    ELSE IF ~is_deadline_event(events[i])
    THEN try_deadline_events_no_break(w, request_id, m, events, i + 1, seen)
    ELSE UNION {LET seen1 == [seen EXCEPT !.attempts =
                                  Append(@, [event |-> events[i], result |-> o.result])]
                    w1 == held_data(w, request_id, seen.shared, o.m) IN
                IF o.result = "True"
                THEN try_deadline_events_no_break(
                        add_state_history(Bump(w1, "deadlines_triggered"), request_id,
                                          StateMachine_to_dict(o.m)),
                        request_id, o.m, events, i + 1,
                        [seen1 EXCEPT !.state = StateValue(o.m.objs, o.m.dicts, o.m.cur)])
                ELSE try_deadline_events_no_break(w1, request_id, o.m, events, i + 1, seen1)
               : o \in advance(workflow_transitions(workflow), m, events[i])}

\* for event in available_events: if "DEADLINE" in event.name.upper(): try:
\* advanced = await state_machine.advance(event); if advanced: ...; break
\* except Exception: logger.debug(...)
RECURSIVE try_deadline_events(_, _, _, _, _, _)
try_deadline_events(w, request_id, m, events, i, seen) ==
    IF i > Len(events) THEN {swept(w, seen)}
    ELSE IF ~is_deadline_event(events[i])
    THEN try_deadline_events(w, request_id, m, events, i + 1, seen)
    ELSE UNION {LET seen1 == [seen EXCEPT !.attempts =
                                  Append(@, [event |-> events[i], result |-> o.result])]
                    w1 == held_data(w, request_id, seen.shared, o.m) IN
                IF o.result = "True"
                THEN {swept(add_state_history(Bump(w1, "deadlines_triggered"), request_id,
                                              StateMachine_to_dict(o.m)),
                            [seen1 EXCEPT !.state = StateValue(o.m.objs, o.m.dicts, o.m.cur)])}
                ELSE try_deadline_events(w1, request_id, o.m, events, i + 1, seen1)
               : o \in advance(workflow_transitions(workflow), m, events[i])}

\* available_events = state_machine.get_available_events(), in the order the
\* list comes in
enumerate_and_try(w, request_id, m, seen) ==
    UNION {try_deadline_events(w, request_id, m, events, 1, [seen EXCEPT !.available = events])
           : events \in get_available_events(workflow_transitions(workflow), m)}

\* A check that does not compare the deadline with the current time.
check_deadline_any_time(w, request_id, m, now, seen) ==
    LET deadline_at == get_state_data(m, "deadline_at", "None") IN
    IF deadline_at.raised THEN {swept_error(w, [seen EXCEPT !.deadline = "raise"])}
    ELSE IF ~Truthy(deadline_at.value) THEN {swept(w, [seen EXCEPT !.deadline = "absent"])}
    ELSE LET parsed == fromisoformat(deadline_at.value) IN
         IF parsed.kind = "ValueError"
         THEN {swept_error(w, [seen EXCEPT !.deadline = "raise"])}
         ELSE enumerate_and_try(w, request_id, m, [seen EXCEPT !.deadline = "elapsed"])

\* deadline_at = state_machine.get_state_data("deadline_at"); if not
\* deadline_at: continue; fromisoformat; if deadline_at > now: continue
check_deadline(w, request_id, m, now, seen) ==
    LET deadline_at == get_state_data(m, "deadline_at", "None") IN
    IF deadline_at.raised THEN {swept_error(w, [seen EXCEPT !.deadline = "raise"])}
    ELSE IF ~Truthy(deadline_at.value) THEN {swept(w, [seen EXCEPT !.deadline = "absent"])}
    ELSE LET parsed == fromisoformat(deadline_at.value) IN
         CASE parsed.kind = "ValueError" -> {swept_error(w, [seen EXCEPT !.deadline = "raise"])}
           [] later_than(parsed, now) = "TypeError" ->
                 {swept_error(w, [seen EXCEPT !.deadline = "raise"])}
           [] later_than(parsed, now) = "True" ->
                 {swept(w, [seen EXCEPT !.deadline = "future"])}
           [] OTHER -> enumerate_and_try(w, request_id, m, [seen EXCEPT !.deadline = "elapsed"])

\* Get the current state; create state machine from current state
load_and_check(w, request_id, now, seen) ==
    UNION {IF ~record.found THEN {swept(w, [seen EXCEPT !.record = "None"])}
           ELSE LET built == StateMachine_from_dict(record.request_state_data)
                    seen1 == [seen EXCEPT !.record = "found", !.at = record.at,
                                          !.shared = shared_row(record)]
                IN  IF built.raised THEN {swept_error(w, [seen1 EXCEPT !.decode = "raise"])}
                    ELSE check_deadline(w, request_id, built.m, now,
                                        [seen1 EXCEPT !.decode = "ok"])
          : record \in latest_state(w, request_id)}

\* The body of "for request in open_requests": every way it can end
sweep_request(w0, registry, request_id, now) ==
    LET w == Bump(w0, "requests_checked")
        workflow_def == WorkflowRegistry_get(registry, RequestType)
    IN  CASE workflow_def = 0 -> {swept(w, [NoSwept EXCEPT !.lookup = "absent"])}
          [] ~registry.defs[workflow_def].enabled ->
                {swept(w, [NoSwept EXCEPT !.lookup = "disabled"])}
          [] OTHER -> load_and_check(w, request_id, now,
                                     [NoSwept EXCEPT !.lookup = "enabled"])

----------------------------------------------------------------------------
\* One run of check_deadline_conditions.

\* The State histories a request may have when the sweep starts: none, one
\* that carries no name, a State whose data is null, and a State "waiting"
\* whose data has no deadline_at or one of the values above.
SweepHistories ==
    {<<>>, <<Payload(FALSE, "", "dict", EmptyDict)>>,
     <<Payload(TRUE, "waiting", "null", EmptyDict)>>,
     <<Payload(TRUE, "waiting", "dict", EmptyDict)>>}
    \cup {<<Payload(TRUE, "waiting", "dict", [x \in {"deadline_at"} |-> v])>> :
             v \in DeadlineValues}

SweepWorld ==
    [requests |-> [i \in RequestIds |-> [status |-> "absent", last_response_at |-> 0]],
     history |-> [i \in RequestIds |-> <<>>], loaded |-> [i \in RequestIds |-> <<>>],
     created_at |-> [i \in RequestIds |-> <<>>], by |-> [i \in RequestIds |-> <<>>],
     txn |-> 1, stats |-> SweepStats]

\* No request swept yet.
NoSweptRequest ==
    [request_id |-> 0, seen |-> NoSwept, pre |-> SweepWorld,
     registry |-> [defs |-> <<>>, workflows |-> <<>>]]

InitSweep ==
    /\ workflow = "escalation"
    /\ objs = <<>> /\ dicts = <<>> /\ cur = 0 /\ orig = <<>> /\ last = NoCall
    /\ probe = Idle
    /\ \E enabled \in BOOLEAN, registered \in BOOLEAN :
          reg = [defs |-> <<WorkflowDefinition(RequestType, enabled)>>,
                 workflows |-> IF registered THEN <<[name |-> RequestType, def |-> 1]>>
                               ELSE <<>>,
                 last |-> NoRegCall, frames |-> [c \in Callers |-> NoFrame]]
    /\ \E status1 \in {"PENDING", "COMPLETED"}, status10 \in {"AWAITING_RESPONSE", "absent"},
          history1 \in SweepHistories,
          history10 \in SweepHistories :
          /\ status10 = "absent" => history10 = <<>>
          /\ run = [op |-> "check_deadlines", phase |-> "start", open_requests |-> <<>>,
                    i |-> 1, now |-> SweepNow,
                    w |-> [SweepWorld EXCEPT !.requests[1].status = status1,
                                             !.requests[10].status = status10,
                                             !.history[1] = history1,
                                             !.history[10] = history10,
                                             !.loaded[1] = history1,
                                             !.loaded[10] = history10,
                                             !.created_at[1] = EarlierTimes(history1),
                                             !.created_at[10] = EarlierTimes(history10),
                                             !.by[1] = EarlierRows(history1),
                                             !.by[10] = EarlierRows(history10)],
                    trail |-> <<>>, last |-> NoSweptRequest]

\* select(Request).where(Request.status.not_in([COMPLETED, CANCELLED])): the
\* open requests, by id
SelectOpen ==
    /\ run.op = "check_deadlines" /\ run.phase = "start"
    /\ run' = [run EXCEPT !.phase = "sweeping",
                          !.open_requests =
                              SelectSeq(<<1, 10>>,
                                        LAMBDA i : run.w.requests[i].status \in OpenStatuses)]
    /\ UNCHANGED <<machine_vars, probe, reg>>

\* One pass of the body of the loop.
SweepRequest ==
    /\ run.op = "check_deadlines" /\ AtRequest
    /\ LET request_id == run.open_requests[run.i] IN
       \E o \in sweep_request(run.w, reg, request_id, run.now) :
          run' = [run EXCEPT !.w = o.w, !.i = @ + 1,
                             !.trail = Append(@, request_id),
                             !.last = [request_id |-> request_id, seen |-> o.seen,
                                       pre |-> run.w, registry |-> RegPre]]
    /\ UNCHANGED <<machine_vars, probe, reg>>

\* await session.commit(); return stats
SweepCommit ==
    /\ run.op = "check_deadlines"
    /\ run.phase = "sweeping" /\ run.i > Len(run.open_requests)
    /\ run' = [run EXCEPT !.phase = "committed"]
    /\ UNCHANGED <<machine_vars, probe, reg>>

NextSweep == SelectOpen \/ SweepRequest \/ SweepCommit \/ RegistryChange

SpecSweep == InitSweep /\ [][NextSweep]_vars

----------------------------------------------------------------------------
\* The request swept last, and what the run held before and after it.
Swept == run.op = "check_deadlines" /\ run.last.request_id # 0

SweptId == run.last.request_id

\* The latest snapshot of the request swept last, before it was swept (a
\* snapshot without a name when it had none).
LatestBefore ==
    LET history == run.last.pre.history[SweptId] IN
    IF history = <<>> THEN Payload(FALSE, "", "dict", EmptyDict) ELSE history[Len(history)]

\* The latest State of the request swept last cannot be read, or its
\* deadline_at cannot be read as a time to compare with the current time.
Unreadable ==
    /\ run.last.pre.history[SweptId] # <<>>
    /\ \/ ~LatestBefore.has_name
       \/ LatestBefore.kind = "null"
       \/ /\ LatestBefore.kind = "dict"
          /\ "deadline_at" \in DOMAIN LatestBefore.data
          /\ LatestBefore.data["deadline_at"] \in {"naive", "garbage"}

\* The conditions under which the sweep may call advance for a request: it is
\* open, its type has an enabled definition, it has a snapshot, the latest
\* State's data has a deadline_at, and that deadline is not later than now.
Due ==
    /\ run.last.pre.requests[SweptId].status \in OpenStatuses
    /\ EnabledAtHandling
    /\ run.last.pre.history[SweptId] # <<>>
    /\ LatestBefore.has_name /\ LatestBefore.kind = "dict"
    /\ "deadline_at" \in DOMAIN LatestBefore.data
    /\ LatestBefore.data["deadline_at"] \in {"t1", "t2", "t3"}
    /\ fromisoformat(LatestBefore.data["deadline_at"]).t <= run.now

\* C28 (as claimed): the sweep calls advance for a request only when the
\* request is due; in every other case the request's history is unchanged and
\* no error is counted.
C28_NotDueNoError ==
    Swept =>
        /\ run.last.seen.attempts # <<>> => Due
        /\ ~Due => /\ run.w.history = run.last.pre.history
                   /\ run.w.stats.errors = run.last.pre.stats.errors

\* C28 (amended): the sweep calls advance for a request only when the request
\* is due; in every other case the request's history is unchanged, and no
\* error is counted unless the request has an enabled definition and its
\* latest State or the deadline in it cannot be read, which counts one error.
C28_NotDueNoErrorUnlessUnreadable ==
    Swept =>
        /\ run.last.seen.attempts # <<>> => Due
        /\ ~Due => /\ run.w.history = run.last.pre.history
                   /\ run.w.stats.errors =
                         run.last.pre.stats.errors
                             + (IF EnabledAtHandling /\ Unreadable THEN 1 ELSE 0)

\* A request whose deadline is the current time has advance called; and one
\* whose deadline is later is passed over.
C28_Witness ==
    /\ Swept /\ Due
    /\ run.last.seen.attempts # <<>>
    /\ LatestBefore.data["deadline_at"] = "t2"
    /\ run.trail = <<1, 10>>
    /\ run.w.history[1] = <<Payload(TRUE, "waiting", "dict", [x \in {"deadline_at"} |-> "t3"])>>
    /\ run.w.stats.errors = 0

\* The events the sweep has tried for the request swept last, in order.
Attempted == [k \in 1..Len(run.last.seen.attempts) |-> run.last.seen.attempts[k].event]

\* The sweep of the last request tried the candidates among the available
\* events, in the order of the list, up to the first that succeeded, and
\* appended one snapshot if one succeeded and none otherwise.
TriedInOrder(candidates) ==
    LET attempts == run.last.seen.attempts
        n == Len(attempts)
    IN  /\ n <= Len(candidates)
        /\ Attempted = SubSeq(candidates, 1, n)
        /\ \A k \in 1..(n - 1) : attempts[k].result # "True"
        /\ (n < Len(candidates)) => (n > 0 /\ attempts[n].result = "True")
        /\ IF n > 0 /\ attempts[n].result = "True"
           THEN /\ run.w.history[SweptId]
                      = Append(run.last.pre.history[SweptId], State_to_dict(run.last.seen.state))
                /\ run.last.seen.state.name # LatestBefore.name
           ELSE run.w.history[SweptId] = run.last.pre.history[SweptId]
        /\ \A i \in RequestIds \ {SweptId} : run.w.history[i] = run.last.pre.history[i]
        /\ \A h, k \in 1..Len(run.trail) : run.trail[h] = run.trail[k] => h = k
        /\ run.phase \in {"sweeping", "committed"}

\* The list get_available_events gave holds each event that has a transition
\* from the State's name, once.
AvailableListed ==
    /\ {run.last.seen.available[k] : k \in 1..Len(run.last.seen.available)}
          = {EscalationTransitions[t].event :
                t \in {u \in 1..Len(EscalationTransitions) :
                          EscalationTransitions[u].from_state = LatestBefore.name}}
    /\ \A h, k \in 1..Len(run.last.seen.available) :
          run.last.seen.available[h] = run.last.seen.available[k] => h = k

\* C29 (as claimed): for a request whose deadline has elapsed the sweep tries,
\* in the enumeration order of the available events, every event whose name
\* contains DEADLINE and no other, up to the first whose advance succeeds; it
\* appends at most one snapshot per request and run, and none when no
\* candidate succeeds.
C29_NamedDEADLINE ==
    (Swept /\ run.last.seen.deadline = "elapsed") =>
        /\ AvailableListed
        /\ TriedInOrder(SelectSeq(run.last.seen.available,
                                  LAMBDA event : \E k \in 1..Len(event) : event[k] = "DEADLINE"))

\* C29 (amended): the same, for every event whose name contains DEADLINE with
\* the letter case ignored.
C29_NamedDEADLINEAnyCase ==
    (Swept /\ run.last.seen.deadline = "elapsed") =>
        /\ AvailableListed
        /\ TriedInOrder(SelectSeq(run.last.seen.available,
                                  LAMBDA event : \E k \in 1..Len(event) :
                                                    event[k] \in {"DEADLINE", "deadline"}))

\* The first candidate fails, the second succeeds, CANCEL is not tried.
C29_Witness ==
    /\ Swept /\ run.last.seen.deadline = "elapsed"
    /\ Len(run.last.seen.attempts) = 2
    /\ run.last.seen.attempts[1].result = "InvalidTransitionError"
    /\ run.last.seen.attempts[2].result = "True"
    /\ run.last.seen.available[1] = CANCEL
    /\ Len(run.w.history[SweptId]) = 2

\* C30 (as claimed): an InvalidTransitionError of one candidate is not an
\* error and the next candidate is tried; any other failure while a request is
\* processed, an error raised by a guard or an action included, ends the
\* processing of that request, counts one error, and leaves the remaining
\* requests to be processed.
C30_OtherFailureCounted ==
    Swept =>
        LET attempts == run.last.seen.attempts IN
        /\ \A k \in 1..Len(attempts) :
              attempts[k].result = "Error" =>
                  /\ k = Len(attempts)
                  /\ run.w.stats.errors = run.last.pre.stats.errors + 1
        /\ (\A k \in 1..Len(attempts) : attempts[k].result # "Error") =>
              run.w.stats.errors =
                  run.last.pre.stats.errors
                      + (IF "raise" \in {run.last.seen.decode, run.last.seen.deadline}
                         THEN 1 ELSE 0)
        /\ run.phase \in {"sweeping", "committed"}

----------------------------------------------------------------------------
(***************************************************************************)
(* The two drivers over the database and the mailbox they share.           *)
(***************************************************************************)

\* Handling the last message ended in one of: closed request, no definition
\* or a disabled one, no event classified, InvalidTransitionError, a
\* successful advance.
TerminalOutcome ==
    \/ run.last.seen.status \in TerminalStatuses
    \/ run.last.seen.lookup \in {"absent", "disabled"}
    \/ run.last.seen.classify = "None"
    \/ run.last.seen.advance \in {"InvalidTransitionError", "True"}

\* C36 (as claimed): in every terminal outcome of handling a message (closed
\* request, absent or disabled workflow, unmatched classification,
\* InvalidTransitionError, successful advance) mark_processed is called for
\* the message, and when the call returns the message is marked processed.
C36_MarkedInEveryTerminalOutcome ==
    (Handled /\ TerminalOutcome) =>
        /\ run.last.seen.mark # "not called"
        /\ run.last.seen.mark = "ok" => MarkedProcessed

----------------------------------------------------------------------------
\* Runs of the two drivers, one after the other, over one database and one
\* mailbox. The beat schedule starts a run of either driver; each run has a
\* session and a transaction of its own.

\* The number of runs the schedule starts.
MaxRuns == 3

\* The messages in the mailbox: none, one or two, all for request 1, each
\* asking to start or to approve.
DriverBodies == {"START", "APPROVE"}

DriverMessage(i, body_text) == EmailMessage(i, <<"x", "[REQ-", "1", "]">>, body_text)

DriverMailboxes ==
    {<<>>} \cup {<<DriverMessage(1, a)>> : a \in DriverBodies}
           \cup {<<DriverMessage(1, a), DriverMessage(2, b)>> : a, b \in DriverBodies}

\* The State history of request 1 before the first run: none, or one State
\* "in_progress" with a deadline that has passed.
DriverHistories ==
    {<<>>, <<Payload(TRUE, "in_progress", "dict", [x \in {"deadline_at"} |-> "t1"])>>}

\* provider.receive_emails(): the messages under the inbound prefix, those
\* not marked processed
receive_emails(mailbox, processed) ==
    SelectSeq(mailbox, LAMBDA email_message :
                           \A k \in 1..Len(processed) : processed[k] # email_message.message_id)

\* async with AsyncSessionLocal() as session: a session that holds no object
\* yet, in a transaction that begins at time txn; the run's counters at 0
new_session(w, txn, stats) == [w EXCEPT !.loaded = w.history, !.txn = txn, !.stats = stats]

\* What is left when the transaction is not committed: the rows as they were
\* when the run began. The marks on the messages are the provider's and stay.
rollback(begin, w) == [begin EXCEPT !.processed = w.processed, !.stats = w.stats]

\* A run has ended: it returned its counters or an exception left it.
Ended == run.phase \in {"idle", "committed", "fetch failed", "commit raised", "select raised"}

InitDrivers ==
    /\ workflow = "followup"
    /\ objs = <<>> /\ dicts = <<>> /\ cur = 0 /\ orig = <<>> /\ last = NoCall
    /\ probe = Idle
    /\ reg = [defs |-> <<WorkflowDefinition(RequestType, TRUE)>>,
              workflows |-> <<[name |-> RequestType, def |-> 1]>>,
              last |-> NoRegCall, frames |-> [c \in Callers |-> NoFrame]]
    /\ \E mailbox \in DriverMailboxes, history \in DriverHistories :
          LET w == [NoWorld EXCEPT !.requests[1].status = "PENDING",
                                   !.history[1] = history, !.loaded[1] = history,
                                   !.created_at[1] = EarlierTimes(history),
                                   !.by[1] = EarlierRows(history)]
          IN  run = [op |-> "none", phase |-> "idle", runs |-> 0, mailbox |-> mailbox,
                     inbox |-> <<>>, grouped |-> <<>>, g |-> 1, e |-> 1,
                     open_requests |-> <<>>, i |-> 1, now |-> SweepNow,
                     w |-> w, begin |-> w, trail |-> <<>>, last |-> NoHandled]

\* The schedule starts process_inbound: counters at 0, the provider's
\* unprocessed messages are there to fetch
StartInbound ==
    /\ Ended /\ run.runs < MaxRuns
    /\ LET w == new_session(run.w, run.runs + 1, InboundStats) IN
       run' = [run EXCEPT !.op = "process_inbound_emails", !.phase = "start",
                          !.runs = @ + 1,
                          !.inbox = receive_emails(run.mailbox, run.w.processed),
                          !.grouped = <<>>, !.g = 1, !.e = 1,
                          !.w = w, !.begin = w, !.trail = <<>>, !.last = NoHandled]
    /\ UNCHANGED <<machine_vars, probe, reg>>

\* The schedule starts check_deadlines: counters at 0
StartSweep ==
    /\ Ended /\ run.runs < MaxRuns
    /\ LET w == new_session(run.w, run.runs + 1, SweepStats) IN
       run' = [run EXCEPT !.op = "check_deadlines", !.phase = "start",
                          !.runs = @ + 1, !.open_requests = <<>>, !.i = 1,
                          !.w = w, !.begin = w, !.trail = <<>>, !.last = NoSweptRequest]
    /\ UNCHANGED <<machine_vars, probe, reg>>

\* receiver.fetch_and_group_by_request() raises (the provider cannot be
\* reached): except Exception: logger.error(...); return stats
FetchFails ==
    /\ run.op = "process_inbound_emails" /\ run.phase = "start"
    /\ run' = [run EXCEPT !.phase = "fetch failed"]
    /\ UNCHANGED <<machine_vars, probe, reg>>

\* The sweep's select of the open requests raises: it is outside every try,
\* the exception leaves the run
SelectFails ==
    /\ run.op = "check_deadlines" /\ run.phase = "start"
    /\ run' = [run EXCEPT !.phase = "select raised"]
    /\ UNCHANGED <<machine_vars, probe, reg>>

\* await session.commit() raises: it is outside every try, the exception
\* leaves the run and the session's transaction is rolled back
CommitFails ==
    /\ \/ run.op = "process_inbound_emails" /\ run.phase = "handling"
                                            /\ run.g > Len(run.grouped)
       \/ run.op = "check_deadlines" /\ run.phase = "sweeping"
                                     /\ run.i > Len(run.open_requests)
    /\ run' = [run EXCEPT !.phase = "commit raised", !.w = rollback(run.begin, run.w)]
    /\ UNCHANGED <<machine_vars, probe, reg>>

NextDrivers ==
    \/ StartInbound \/ FetchAndGroup \/ FetchFails \/ HandleMessage \/ Commit
    \/ StartSweep \/ SelectOpen \/ SelectFails \/ SweepRequest \/ SweepCommit
    \/ CommitFails

SpecDrivers == InitDrivers /\ [][NextDrivers]_vars

----------------------------------------------------------------------------
\* The run is between two items, or has committed: what it appended is in
\* run.w, and run.last tells the item handled last.
Running == run.phase \in {"handling", "sweeping", "committed"}

\* Handling the last item appended to the history of its request exactly the
\* State the machine had after the advance, and nothing to any other.
AppendedNewState ==
    /\ run.w.history[run.last.request_id]
          = Append(run.last.pre.history[run.last.request_id],
                   State_to_dict(run.last.seen.state))
    /\ \A i \in RequestIds \ {run.last.request_id} :
          run.w.history[i] = run.last.pre.history[i]

\* The sweep of the last request had an advance return True.
SweepAdvanced ==
    \E k \in 1..Len(run.last.seen.attempts) : run.last.seen.attempts[k].result = "True"

\* C31: in both drivers, handling an item appends a snapshot only when an
\* advance returned True, and then exactly one, the machine's State after
\* that transition; when advance was not called, raised or found no valid
\* transition, no history changes.
C31_SnapshotOnlyAfterSuccess ==
    /\ (Running /\ Handled) =>
          IF run.last.seen.advance = "True" THEN AppendedNewState
          ELSE run.w.history = run.last.pre.history
    /\ (Running /\ Swept) =>
          IF SweepAdvanced THEN AppendedNewState
          ELSE run.w.history = run.last.pre.history

\* An approval whose action wrote to the state data and then raised, in a run
\* after one whose sweep advanced the request.
C31_Witness ==
    /\ Running /\ Handled
    /\ run.runs = 2
    /\ run.last.seen.advance = "Error"
    /\ run.last.seen.state.name = "in_progress"
    /\ run.last.seen.state.data # run.last.pre.history[1][run.last.seen.at].data
    /\ \E k \in 1..Len(run.w.history[1]) : run.w.history[1][k].name = "in_progress"

----------------------------------------------------------------------------
\* C32 (as claimed): handling an item deletes or edits no snapshot a request
\* had before: the rows that were there are still there, unchanged, and the
\* snapshot mappings read from them, the one the machine was built from
\* included, still have the name and the data they had; a history only grows
\* at its end.
C32_HistoryNeverEdited ==
    (Running /\ (Handled \/ Swept)) =>
        \A i \in RequestIds :
            /\ Len(run.w.history[i]) >= Len(run.last.pre.history[i])
            /\ \A k \in 1..Len(run.last.pre.history[i]) :
                  /\ run.w.history[i][k] = run.last.pre.history[i][k]
                  /\ run.w.loaded[i][k] = run.last.pre.loaded[i][k]

----------------------------------------------------------------------------
\* The snapshots of request i that were appended for message m.
AppendedFor(i, m) == {k \in 1..Len(run.w.by[i]) : run.w.by[i][k] = m}

\* C34 (as claimed): after any number of runs, every message of the mailbox
\* has at most one committed snapshot appended for it.
C34_AtMostOneSnapshotPerMessage ==
    run.phase = "committed" =>
        \A i \in RequestIds, m \in 1..Len(run.mailbox) : Cardinality(AppendedFor(i, m)) <= 1

----------------------------------------------------------------------------
\* C35 (as claimed): no failure of the provider or of the database leaves a
\* run by an exception (every run returns its counters), a fetch that failed
\* is counted as an error, and a mark_processed that failed counts one error
\* and leaves the snapshots the session holds as they were.
C35_IOFailureIsolatedAndCounted ==
    /\ run.phase \notin {"commit raised", "select raised"}
    /\ run.phase = "fetch failed" => run.w.stats.errors >= 1
    /\ (Running /\ Handled /\ run.last.seen.mark = "raise") =>
          /\ run.w.stats.errors = run.last.pre.stats.errors + 1
          /\ \A i \in RequestIds :
                SubSeq(run.w.history[i], 1, Len(run.last.pre.history[i]))
                    = run.last.pre.history[i]

----------------------------------------------------------------------------
\* The workflow declares a transition from one State name to the other.
DeclaredStep(from_state, to_state) ==
    \E t \in 1..Len(workflow_transitions(workflow)) :
        /\ workflow_transitions(workflow)[t].from_state = from_state
        /\ workflow_transitions(workflow)[t].to_state = to_state

\* The orders of the rows of a request that order_by(created_at) can give.
LatestOrders(created_at) ==
    {p \in [1..Len(created_at) -> 1..Len(created_at)] :
        /\ \A j, k \in 1..Len(created_at) : j # k => p[j] # p[k]
        /\ \A k \in 1..(Len(created_at) - 1) : created_at[p[k]] <= created_at[p[k + 1]]}

\* C37 (as claimed): after any number of runs of the two drivers, the
\* committed history of every request, in an order by created_at, is a path
\* of the workflow: every two consecutive snapshots are joined by a declared
\* transition.
C37_HistoryIsAPath ==
    run.phase = "committed" =>
        \A i \in RequestIds :
            \E p \in LatestOrders(run.w.created_at[i]) :
                \A k \in 1..(Len(p) - 1) :
                    DeclaredStep(run.w.history[i][p[k]].name, run.w.history[i][p[k + 1]].name)

----------------------------------------------------------------------------
\* C38 (as claimed): when an inbound run has ended, by its commit or by an
\* exception, and the message it handled last advanced its request and was
\* marked processed, the database holds the snapshot appended for that
\* message.
C38_MarkedImpliesPersisted ==
    (/\ Handled
     /\ run.phase \in {"committed", "commit raised"}
     /\ run.last.seen.advance = "True"
     /\ run.last.seen.mark = "ok") =>
        AppendedFor(LastId, run.last.email_message.message_id) # {}

----------------------------------------------------------------------------
\* The deadline_at a snapshot carries, "" when it carries none.
DeadlineOf(snapshot) ==
    IF "deadline_at" \in DOMAIN snapshot.data THEN snapshot.data["deadline_at"] ELSE ""

\* C39 (as claimed): no request has two committed snapshots appended by
\* sweeps with the same deadline_at in every snapshot from the first of the
\* two to the second.
C39_DeadlineFiresOnce ==
    run.phase = "committed" =>
        \A i \in RequestIds :
            \A j, k \in AppendedFor(i, 0) :
                j < k => \E n \in j..k : DeadlineOf(run.w.history[i][n])
                                            # DeadlineOf(run.w.history[i][j])

----------------------------------------------------------------------------
\* The number of snapshots the run has appended since it began.
AppendedByRun ==
    Snapshots(run.w) - Snapshots(run.begin)

\* The run is under way or has returned its counters.
Counting == run.phase \in {"start", "handling", "sweeping", "committed", "fetch failed"}

\* C40: the counters of an inbound run satisfy emails_processed >=
\* emails_matched >= workflows_advanced, and workflows_advanced is the number
\* of snapshots the run appended; those of a sweep satisfy requests_checked
\* >= deadlines_triggered, and deadlines_triggered is the number of snapshots
\* the run appended; errors is at most the number of items handled.
C40_CountersConsistent ==
    /\ (Counting /\ run.op = "process_inbound_emails") =>
          /\ run.w.stats.emails_processed >= run.w.stats.emails_matched
          /\ run.w.stats.emails_matched >= run.w.stats.workflows_advanced
          /\ run.w.stats.workflows_advanced = AppendedByRun
          /\ run.w.stats.errors <= run.w.stats.emails_processed
          /\ run.w.stats.emails_processed = Len(run.trail)
    /\ (Counting /\ run.op = "check_deadlines") =>
          /\ run.w.stats.requests_checked >= run.w.stats.deadlines_triggered
          /\ run.w.stats.deadlines_triggered = AppendedByRun
          /\ run.w.stats.errors <= run.w.stats.requests_checked
          /\ run.w.stats.requests_checked = Len(run.trail)

\* A second run, inbound, that returned: two messages handled, one of them
\* advancing the request, one error counted for a mark_processed that failed,
\* after a run that appended two snapshots.
C40_Witness ==
    /\ run.op = "process_inbound_emails" /\ run.phase = "committed"
    /\ run.runs = 2
    /\ run.w.stats = [emails_processed |-> 2, emails_matched |-> 2,
                      workflows_advanced |-> 1, errors |-> 1]
    /\ Snapshots(run.begin) = 3

----------------------------------------------------------------------------
\* Two tasks at once. The beat schedule sends a task every minute and every
\* five minutes whether or not the last one has ended, and the worker runs
\* the tasks it receives in its pool of processes; neither the tasks nor the
\* queries take a lock. Each task has a session of its own, which reads the
\* committed rows and holds what it adds until its commit.

Tasks == {"task1", "task2"}

\* The time a task's transaction began.
BeganAt(c) == IF c = "task1" THEN 1 ELSE 2

NoTask == [driver |-> "none", pc |-> "sent", w |-> NoWorld, base |-> 0]

InitTasks ==
    /\ workflow = "followup"
    /\ objs = <<>> /\ dicts = <<>> /\ cur = 0 /\ orig = <<>> /\ last = NoCall
    /\ probe = Idle
    /\ reg = [defs |-> <<WorkflowDefinition(RequestType, TRUE)>>,
              workflows |-> <<[name |-> RequestType, def |-> 1]>>,
              last |-> NoRegCall, frames |-> [c \in Callers |-> NoFrame]]
    /\ \E body_text \in DriverBodies, history \in DriverHistories :
          run = [op |-> "tasks",
                 mailbox |-> <<DriverMessage(1, body_text)>>,
                 db |-> [NoWorld EXCEPT !.requests[1].status = "PENDING",
                                        !.history[1] = history, !.loaded[1] = history,
                                        !.created_at[1] = EarlierTimes(history),
                                        !.by[1] = EarlierRows(history)],
                 task |-> [c \in Tasks |-> NoTask]]

\* A task of process_inbound handles the message it fetched when it began,
\* the one of the mailbox: it reads the request and its latest State as
\* committed, advances, and adds to its session
InboundItem(c) ==
    /\ run.op = "tasks" /\ run.task[c].pc = "sent"
    /\ \E o \in handle_message(new_session(run.db, BeganAt(c), InboundStats), reg, 1,
                               run.mailbox[1]) :
          run' = [run EXCEPT !.task[c] = [driver |-> "process_inbound_emails",
                                          pc |-> "handled", w |-> o.w,
                                          base |-> Len(run.db.history[1])],
                             !.db.processed = o.w.processed]
    /\ UNCHANGED <<machine_vars, probe, reg>>

\* A task of check_deadline_conditions sweeps request 1
SweepItem(c) ==
    /\ run.op = "tasks" /\ run.task[c].pc = "sent"
    /\ \E o \in sweep_request(new_session(run.db, BeganAt(c), SweepStats), reg, 1, SweepNow) :
          run' = [run EXCEPT !.task[c] = [driver |-> "check_deadlines",
                                          pc |-> "handled", w |-> o.w,
                                          base |-> Len(run.db.history[1])]]
    /\ UNCHANGED <<machine_vars, probe, reg>>

\* The rows a session added to request 1.
Added(task, field) == SubSeq(task.w[field][1], task.base + 1, Len(task.w[field][1]))

\* await session.commit(): the rows the session added are committed
CommitTask(c) ==
    /\ run.op = "tasks" /\ run.task[c].pc = "handled"
    /\ run' = [run EXCEPT !.task[c].pc = "committed",
                          !.db.history[1] = @ \o Added(run.task[c], "history"),
                          !.db.loaded[1] = @ \o Added(run.task[c], "history"),
                          !.db.created_at[1] = @ \o Added(run.task[c], "created_at"),
                          !.db.by[1] = @ \o Added(run.task[c], "by")]
    /\ UNCHANGED <<machine_vars, probe, reg>>

NextTasks == \E c \in Tasks : InboundItem(c) \/ SweepItem(c) \/ CommitTask(c)

SpecTasks == InitTasks /\ [][NextTasks]_vars

\* A task has read the latest State of request 1 and has not committed yet.
InReadAdvanceWrite(c) == run.task[c].pc = "handled"

\* C33 (as claimed): no two tasks are at once between reading the latest
\* State of a request and committing.
C33_OneTaskPerRequest ==
    \A c, d \in Tasks : (InReadAdvanceWrite(c) /\ InReadAdvanceWrite(d)) => c = d

====
